---- MODULE Spec2Model ----
(***************************************************************************)
(* A model of the das-bridge client library: the message parser of         *)
(* das_trader/utils.py and the market-data cache of                        *)
(* das_trader/market_data.py.                                              *)
(*                                                                         *)
(* Python values are modelled as one-field records so that values of       *)
(* different Python types never compare equal:                             *)
(*   None -> [none |-> TRUE]      str  -> [str |-> "AAPL"]                 *)
(*   int  -> [int |-> 100]        bool -> [bool |-> TRUE]                  *)
(*   Decimal  -> [dec |-> <<kind, mantissa, fractional digits>>]           *)
(*   datetime -> [ts |-> "20240101 09:30:00"]                              *)
(* A dict is a function from its string keys; an exception travelling out  *)
(* of an expression is the value [exc |-> <message>].                      *)
(*                                                                         *)
(* The connection manager (send_command, register_handler, the read loop)  *)
(* is not among the sources; its pending table and dispatch rule follow    *)
(* the design document.                                                    *)
(***************************************************************************)
EXTENDS Integers, Sequences, FiniteSets, TLC

VARIABLES
    line,           \* the raw line last handed to parse_message
    parsed,         \* the record that call returned (NoResult between calls)
    quotes,         \* MarketDataManager._quotes: symbol -> Quote
    level2_data,    \* MarketDataManager._level2_data: symbol -> side -> entries
    time_sales,     \* MarketDataManager._time_sales: symbol -> tape
    chart_data,     \* MarketDataManager._chart_data: symbol -> chart type -> bars
    quote_subs,     \* MarketDataManager._quote_subscriptions
    level2_subs,    \* MarketDataManager._level2_subscriptions
    ts_subs,        \* MarketDataManager._time_sales_subscriptions
    pending,        \* the dispatch core's pending table, oldest request first
    task,           \* the get_quote calls: where each is and what it holds
    now,            \* the clock, in seconds
    events,         \* how many inbound lines have been dispatched
    calls,          \* how many subscribe/unsubscribe calls have been made
    last,           \* what the last step did
    held,           \* what a caller holds of a value a read accessor returned
    callbacks,      \* MarketDataManager._callbacks: event -> callbacks, in order
    invoked,        \* the callbacks the last delivery ran, in order
    ltask,          \* the analyze_locate / ensure_locate calls
    guard,          \* the locate-price inquiry guard of the client
    wire,           \* the commands the locate calls sent, in order
    rcall,          \* the risk or strategy call made and what it returned
    orders          \* what that call asked of the order manager, in order

parserVars == <<line, parsed>>

cacheVars == <<quotes, level2_data, time_sales, chart_data>>

subVars == <<quote_subs, level2_subs, ts_subs>>

coreVars == <<pending, task, now, events, calls, last>>

appVars == <<held, callbacks, invoked>>

locateVars == <<ltask, guard, wire>>

stratVars == <<rcall, orders>>

vars == <<line, parsed, quotes, level2_data, time_sales, chart_data,
          quote_subs, level2_subs, ts_subs, pending, task, now, events, calls, last,
          held, callbacks, invoked, ltask, guard, wire, rcall, orders>>

-----------------------------------------------------------------------------
(* Bounds of the model.                                                    *)

\* how many tokens of a well-formed line are replaced by a stray token
MaxBadTokens == 1

\* how many inbound lines the read loop dispatches
MaxEvents == 3

\* how many inbound lines arrive while quotes are queried
MaxReplies == 2

\* how many trade prints arrive for one tape
MaxPrints == 1003

\* how many subscribe/unsubscribe calls are made
MaxCalls == 2

\* how many get_quote calls are made
NumCallers == 2

\* how many analyze_locate / ensure_locate calls are made
NumLocateCallers == 2

\* the clock's step and its end, in seconds
ClockStep == 20
MaxClock == 40

-----------------------------------------------------------------------------
(* Python values.                                                          *)

PyNone == [none |-> TRUE]
PyStr(s) == [str |-> s]
PyInt(n) == [int |-> n]
PyBool(b) == [bool |-> b]
PyDec(kind, m, e) == [dec |-> <<kind, m, e>>]
Exc(msg) == [exc |-> msg]

IsNone(v) == DOMAIN v = {"none"}
IsStr(v) == DOMAIN v = {"str"}
IsInt(v) == DOMAIN v = {"int"}
IsDec(v) == DOMAIN v = {"dec"}
IsExc(v) == DOMAIN v = {"exc"}

\* dict.get(key): the value, or None when the key is absent
Get(d, key) == IF key \in DOMAIN d THEN d[key] ELSE PyNone

\* dict.get(key, default)
GetDefault(d, key, default) == IF key \in DOMAIN d THEN d[key] ELSE default

-----------------------------------------------------------------------------
(* Python string operations, computed character by character.              *)

Ch(s, i) == SubSeq(s, i, i)

\* s[i:] with a 0-based start, as Python slices it
SliceFrom(s, i) == IF i >= Len(s) THEN "" ELSE SubSeq(s, i + 1, Len(s))

StartsWith(s, p) == Len(s) >= Len(p) /\ SubSeq(s, 1, Len(p)) = p

IsSpace(c) == c = " "

RECURSIVE LStrip(_)
LStrip(s) ==
    IF s = "" THEN ""
    ELSE IF IsSpace(Ch(s, 1)) THEN LStrip(SliceFrom(s, 1))
    ELSE s

RECURSIVE RStrip(_)
RStrip(s) ==
    IF s = "" THEN ""
    ELSE IF IsSpace(Ch(s, Len(s))) THEN RStrip(SubSeq(s, 1, Len(s) - 1))
    ELSE s

\* str.strip()
Strip(s) == RStrip(LStrip(s))

RECURSIVE SplitFrom(_, _, _, _)
SplitFrom(s, i, cur, acc) ==
    IF i > Len(s) THEN (IF cur = "" THEN acc ELSE Append(acc, cur))
    ELSE IF IsSpace(Ch(s, i))
         THEN SplitFrom(s, i + 1, "", IF cur = "" THEN acc ELSE Append(acc, cur))
         ELSE SplitFrom(s, i + 1, cur \o Ch(s, i), acc)

\* str.split(): the maximal runs of non-whitespace characters
Split(s) == SplitFrom(s, 1, "", <<>>)

RECURSIVE Join(_, _)
\* sep.join(parts)
Join(sep, parts) ==
    IF parts = <<>> THEN ""
    ELSE IF Len(parts) = 1 THEN parts[1]
    ELSE parts[1] \o sep \o Join(sep, Tail(parts))

\* parts[i:] with a 0-based start
ListFrom(parts, i) == IF i >= Len(parts) THEN <<>> ELSE SubSeq(parts, i + 1, Len(parts))

\* parts[i:j] with 0-based bounds
ListSlice(parts, i, j) ==
    IF i >= Len(parts) THEN <<>>
    ELSE SubSeq(parts, i + 1, IF j > Len(parts) THEN Len(parts) ELSE j)

Lower == "abcdefghijklmnopqrstuvwxyz"
Upper == "ABCDEFGHIJKLMNOPQRSTUVWXYZ"

UpperCh(c) ==
    IF \E i \in 1..26 : Ch(Lower, i) = c
    THEN Ch(Upper, CHOOSE i \in 1..26 : Ch(Lower, i) = c)
    ELSE c

LowerCh(c) ==
    IF \E i \in 1..26 : Ch(Upper, i) = c
    THEN Ch(Lower, CHOOSE i \in 1..26 : Ch(Upper, i) = c)
    ELSE c

RECURSIVE ToLower(_)
\* str.lower()
ToLower(s) == IF s = "" THEN "" ELSE LowerCh(Ch(s, 1)) \o ToLower(SliceFrom(s, 1))

RECURSIVE ToUpper(_)
\* str.upper()
ToUpper(s) == IF s = "" THEN "" ELSE UpperCh(Ch(s, 1)) \o ToUpper(SliceFrom(s, 1))

Digits == "0123456789"
IsDigit(c) == \E i \in 1..10 : Ch(Digits, i) = c
DigitVal(c) == (CHOOSE i \in 1..10 : Ch(Digits, i) = c) - 1
IsAlpha(c) == \E i \in 1..26 : Ch(Lower, i) = c \/ Ch(Upper, i) = c

AllDigits(s) == Len(s) > 0 /\ \A i \in 1..Len(s) : IsDigit(Ch(s, i))

RECURSIVE DigitsVal(_)
DigitsVal(s) ==
    IF s = "" THEN 0
    ELSE 10 * DigitsVal(SubSeq(s, 1, Len(s) - 1)) + DigitVal(Ch(s, Len(s)))

\* str(n) for n >= 0
RECURSIVE py_str(_)
py_str(n) ==
    IF n < 10 THEN Ch(Digits, n + 1) ELSE py_str(n \div 10) \o Ch(Digits, (n % 10) + 1)

HasSign(s) == Len(s) > 0 /\ Ch(s, 1) \in {"+", "-"}
Unsigned(s) == IF HasSign(s) THEN SliceFrom(s, 1) ELSE s
SignOf(s) == IF Len(s) > 0 /\ Ch(s, 1) = "-" THEN -1 ELSE 1

-----------------------------------------------------------------------------
(* Numeric and timestamp conversions of utils.py.  The line alphabet has   *)
(* no underscore and no exponent form, and timestamps are written with     *)
(* two-digit fields, so the grammars below are the ones Python applies to  *)
(* every token the model feeds in.                                         *)

\* int(token): an optional sign and decimal digits, else ValueError
py_int(tok) ==
    IF AllDigits(Unsigned(tok))
    THEN PyInt(SignOf(tok) * DigitsVal(Unsigned(tok)))
    ELSE Exc("invalid literal for int() with base 10: '" \o tok \o "'")

DotCount(s) == Cardinality({i \in 1..Len(s) : Ch(s, i) = "."})
DotPos(s) == CHOOSE i \in 1..Len(s) : Ch(s, i) = "."
DigitsOrEmpty(s) == s = "" \/ AllDigits(s)

\* Decimal(token): the value, or the conversion's failure as an exception
py_Decimal(tok) ==
    LET u == Unsigned(tok)
        sg == SignOf(tok)
    IN  IF ToUpper(u) \in {"INF", "INFINITY"} THEN PyDec("inf", sg, 0)
        ELSE IF ToUpper(u) = "NAN" THEN PyDec("nan", sg, 0)
        ELSE IF ToUpper(u) = "SNAN" THEN PyDec("snan", sg, 0)
        ELSE IF AllDigits(u) THEN PyDec("fin", sg * DigitsVal(u), 0)
        ELSE IF DotCount(u) = 1
             THEN LET p == DotPos(u)
                      ip == SubSeq(u, 1, p - 1)
                      fp == SliceFrom(u, p)
                  IN  IF DigitsOrEmpty(ip) /\ DigitsOrEmpty(fp) /\ ip \o fp # ""
                      THEN PyDec("fin", sg * DigitsVal(ip \o fp), Len(fp))
                      ELSE Exc("InvalidOperation")
             ELSE Exc("InvalidOperation")

\* parse_decimal without its try/except: the failure travels on
parse_decimal_unguarded(value) == py_Decimal(value)

\* parse_decimal: None on any conversion failure
parse_decimal(value) ==
    LET d == py_Decimal(value)
    IN  IF IsExc(d) THEN PyNone ELSE d

\* the string with every digit replaced by "d"
RECURSIVE Mask(_)
Mask(s) ==
    IF s = "" THEN ""
    ELSE (IF IsDigit(Ch(s, 1)) THEN "d" ELSE Ch(s, 1)) \o Mask(SliceFrom(s, 1))

Num(s, i, n) == DigitsVal(SubSeq(s, i, i + n - 1))

IsLeap(y) == (y % 4 = 0 /\ y % 100 # 0) \/ y % 400 = 0
DaysIn(y, m) ==
    IF m = 2 THEN (IF IsLeap(y) THEN 29 ELSE 28)
    ELSE IF m \in {4, 6, 9, 11} THEN 30 ELSE 31

ValidDateTime(y, m, d, hh, mm, ss) ==
    /\ y >= 1 /\ m \in 1..12 /\ d >= 1 /\ d <= DaysIn(y, m)
    /\ hh \in 0..23 /\ mm \in 0..59 /\ ss \in 0..59

\* parse_timestamp: the first of the four layouts that fits, else None
parse_timestamp(s) ==
    LET k == Mask(s)
    IN  IF k = "dddddddd dd:dd:dd"
           /\ ValidDateTime(Num(s, 1, 4), Num(s, 5, 2), Num(s, 7, 2),
                            Num(s, 10, 2), Num(s, 13, 2), Num(s, 16, 2))
        THEN [ts |-> s]
        ELSE IF k = "dddd-dd-dd dd:dd:dd"
           /\ ValidDateTime(Num(s, 1, 4), Num(s, 6, 2), Num(s, 9, 2),
                            Num(s, 12, 2), Num(s, 15, 2), Num(s, 18, 2))
        THEN [ts |-> s]
        ELSE IF k = "dd/dd/dddd dd:dd:dd"
           /\ ValidDateTime(Num(s, 7, 4), Num(s, 1, 2), Num(s, 4, 2),
                            Num(s, 12, 2), Num(s, 15, 2), Num(s, 18, 2))
        THEN [ts |-> s]
        ELSE IF k = "dddddddddddddd"
           /\ ValidDateTime(Num(s, 1, 4), Num(s, 5, 2), Num(s, 7, 2),
                            Num(s, 9, 2), Num(s, 11, 2), Num(s, 13, 2))
        THEN [ts |-> s]
        ELSE PyNone

-----------------------------------------------------------------------------
(* The positional field extractors.  A body is the dict literal of the     *)
(* try block as a sequence of <<key, value>> pairs in evaluation order     *)
(* (the constant "type" entry is the kind argument); the first value that  *)
(* is an exception is the one the except clause catches.                   *)

Has(parts, i) == Len(parts) > i
At(parts, i) == parts[i + 1]

StrAt(parts, i) == IF Has(parts, i) THEN PyStr(At(parts, i)) ELSE PyNone
IntAt(parts, i) == IF Has(parts, i) THEN py_int(At(parts, i)) ELSE PyInt(0)
DecAt(parts, i) == IF Has(parts, i) THEN parse_decimal(At(parts, i)) ELSE PyNone
DecAtOr(parts, i, default) == IF Has(parts, i) THEN parse_decimal(At(parts, i)) ELSE default
YesAt(parts, i) == IF Has(parts, i) THEN PyBool(ToUpper(At(parts, i)) = "YES") ELSE PyBool(FALSE)
RestAt(parts, i) == IF Has(parts, i) THEN PyStr(Join(" ", ListFrom(parts, i))) ELSE PyNone

Raises(body) == \E i \in 1..Len(body) : IsExc(body[i][2])
FirstExc(body) == body[CHOOSE i \in 1..Len(body) :
                        /\ IsExc(body[i][2])
                        /\ \A j \in 1..(i - 1) : ~IsExc(body[j][2])][2]

\* the dict {"type": kind, key: value, ...}
ToDict(kind, body) ==
    [k \in {"type"} \cup {body[i][1] : i \in 1..Len(body)} |->
        IF k = "type" THEN kind
        ELSE body[CHOOSE i \in 1..Len(body) : body[i][1] = k][2]]

ErrorDict(kind, e, parts) == [type |-> kind, error |-> e.exc, raw |-> parts]

\* an extractor without its except clause: the exception leaves the parser
TryExcept_uncaught(kind, body, parts) ==
    IF Raises(body) THEN FirstExc(body) ELSE ToDict(kind, body)

\* try: return {...}  except Exception as e: return {type, error, raw}
TryExcept(kind, body, parts) ==
    IF Raises(body) THEN ErrorDict(kind, FirstExc(body), parts) ELSE ToDict(kind, body)

TsPair(parts, i, need) ==
    IF Len(parts) > need THEN parse_timestamp(Join(" ", ListSlice(parts, i, i + 2))) ELSE PyNone
TsAt(parts, i) == IF Has(parts, i) THEN parse_timestamp(At(parts, i)) ELSE PyNone

parse_order_message(parts) ==
    TryExcept("ORDER", <<
        <<"order_id", StrAt(parts, 0)>>,
        <<"symbol", StrAt(parts, 1)>>,
        <<"side", StrAt(parts, 2)>>,
        <<"quantity", IntAt(parts, 3)>>,
        <<"price", DecAt(parts, 4)>>,
        <<"order_type", StrAt(parts, 5)>>,
        <<"status", StrAt(parts, 6)>>,
        <<"filled_qty", IntAt(parts, 7)>>,
        <<"avg_price", DecAt(parts, 8)>>,
        <<"remaining_qty", IntAt(parts, 9)>>,
        <<"timestamp", TsPair(parts, 10, 11)>> >>, parts)

parse_order_action_message(parts) ==
    TryExcept("ORDER_ACTION", <<
        <<"order_id", StrAt(parts, 0)>>,
        <<"action", StrAt(parts, 1)>>,
        <<"status", StrAt(parts, 2)>>,
        <<"details", RestAt(parts, 3)>> >>, parts)

\* bool(x) of an int, a Decimal or None
Truthy(v) ==
    IF IsNone(v) THEN FALSE
    ELSE IF IsInt(v) THEN v.int # 0
    ELSE IF IsDec(v) THEN ~(v.dec[1] = "fin" /\ v.dec[2] = 0)
    ELSE TRUE

Sgn(n) == IF n < 0 THEN -1 ELSE 1

\* int * Decimal; a signalling NaN operand raises InvalidOperation
IntTimesDec(q, d) ==
    IF d.dec[1] = "snan" THEN Exc("[<class 'decimal.InvalidOperation'>]")
    ELSE IF d.dec[1] = "nan" THEN d
    ELSE IF d.dec[1] = "inf" THEN PyDec("inf", Sgn(q.int) * d.dec[2], 0)
    ELSE PyDec("fin", q.int * d.dec[2], d.dec[3])

parse_position_message(parts) ==
    LET qty == IntAt(parts, 1)
        avg_cost == DecAtOr(parts, 2, PyDec("fin", 0, 0))
        current_price == DecAtOr(parts, 3, PyDec("fin", 0, 0))
    IN  TryExcept("POSITION", <<
            <<"quantity", qty>>,
            <<"avg_cost", avg_cost>>,
            <<"current_price", current_price>>,
            <<"symbol", StrAt(parts, 0)>>,
            <<"pnl", DecAt(parts, 4)>>,
            <<"pnl_percent", DecAt(parts, 5)>>,
            <<"market_value",
              IF IsExc(qty) THEN qty
              ELSE IF Truthy(qty) /\ Truthy(current_price)
                   THEN IntTimesDec(qty, current_price)
                   ELSE PyDec("fin", 0, 0)>> >>, parts)

parse_quote_message(parts) ==
    TryExcept("QUOTE", <<
        <<"symbol", StrAt(parts, 0)>>,
        <<"bid", DecAt(parts, 1)>>,
        <<"ask", DecAt(parts, 2)>>,
        <<"last", DecAt(parts, 3)>>,
        <<"volume", IntAt(parts, 4)>>,
        <<"bid_size", IntAt(parts, 5)>>,
        <<"ask_size", IntAt(parts, 6)>>,
        <<"timestamp", TsPair(parts, 7, 8)>> >>, parts)

parse_level2_message(parts) ==
    TryExcept("LEVEL2", <<
        <<"symbol", StrAt(parts, 0)>>,
        <<"side", StrAt(parts, 1)>>,
        <<"price", DecAt(parts, 2)>>,
        <<"size", IntAt(parts, 3)>>,
        <<"mmid", StrAt(parts, 4)>>,
        <<"timestamp", TsPair(parts, 5, 6)>> >>, parts)

parse_time_sales_message(parts) ==
    TryExcept("TIME_SALES", <<
        <<"symbol", StrAt(parts, 0)>>,
        <<"price", DecAt(parts, 1)>>,
        <<"size", IntAt(parts, 2)>>,
        <<"timestamp", TsAt(parts, 3)>>,
        <<"condition", StrAt(parts, 4)>> >>, parts)

parse_chart_message(parts) ==
    TryExcept("CHART", <<
        <<"symbol", StrAt(parts, 0)>>,
        <<"chart_type", StrAt(parts, 1)>>,
        <<"open", DecAt(parts, 2)>>,
        <<"high", DecAt(parts, 3)>>,
        <<"low", DecAt(parts, 4)>>,
        <<"close", DecAt(parts, 5)>>,
        <<"volume", IntAt(parts, 6)>>,
        <<"timestamp", TsAt(parts, 7)>> >>, parts)

parse_buying_power_message(parts) ==
    TryExcept("BUYING_POWER", <<
        <<"buying_power", DecAt(parts, 0)>>,
        <<"day_trading_bp", DecAt(parts, 1)>>,
        <<"overnight_bp", DecAt(parts, 2)>>,
        <<"cash", DecAt(parts, 3)>> >>, parts)

parse_short_info_message(parts) ==
    TryExcept("SHORT_INFO", <<
        <<"symbol", StrAt(parts, 0)>>,
        <<"shortable", YesAt(parts, 1)>>,
        <<"rate", DecAt(parts, 2)>>,
        <<"available_shares", IntAt(parts, 3)>> >>, parts)

parse_locate_info_message(parts) ==
    TryExcept("LOCATE_INFO", <<
        <<"symbol", StrAt(parts, 0)>>,
        <<"located", YesAt(parts, 1)>>,
        <<"quantity", IntAt(parts, 2)>>,
        <<"rate", DecAt(parts, 3)>>,
        <<"locate_id", StrAt(parts, 4)>> >>, parts)

parse_locate_return_message(parts) ==
    TryExcept("LOCATE_RETURN", <<
        <<"symbol", StrAt(parts, 0)>>,
        <<"quantity", IntAt(parts, 1)>>,
        <<"rate", DecAt(parts, 2)>>,
        <<"available", YesAt(parts, 3)>>,
        <<"route", StrAt(parts, 4)>> >>, parts)

parse_locate_order_message(parts) ==
    TryExcept("LOCATE_ORDER", <<
        <<"locate_id", StrAt(parts, 0)>>,
        <<"symbol", StrAt(parts, 1)>>,
        <<"status", StrAt(parts, 2)>>,
        <<"details", RestAt(parts, 3)>>,
        <<"located", IF Has(parts, 2) THEN PyBool(ToUpper(At(parts, 2)) = "ACCEPTED")
                     ELSE PyBool(FALSE)>> >>, parts)

parse_locate_avail_message(parts) ==
    TryExcept("LOCATE_AVAIL", <<
        <<"account", StrAt(parts, 0)>>,
        <<"symbol", StrAt(parts, 1)>>,
        <<"available_shares", IntAt(parts, 2)>>,
        <<"rate", DecAt(parts, 3)>> >>, parts)

parse_limit_down_up_message(parts) ==
    TryExcept("LIMIT_DOWN_UP", <<
        <<"symbol", StrAt(parts, 0)>>,
        <<"limit_down", DecAt(parts, 1)>>,
        <<"limit_up", DecAt(parts, 2)>> >>, parts)

\* result["type"] = kind on the dict another extractor returned
Retag(d, kind) == [k \in DOMAIN d |-> IF k = "type" THEN kind ELSE d[k]]

parse_watch_order_message(parts) == Retag(parse_order_message(parts), "WATCH_ORDER")

parse_watch_position_message(parts) == Retag(parse_position_message(parts), "WATCH_POSITION")

parse_watch_trade_message(parts) ==
    TryExcept("WATCH_TRADE", <<
        <<"trade_id", StrAt(parts, 0)>>,
        <<"symbol", StrAt(parts, 1)>>,
        <<"side", StrAt(parts, 2)>>,
        <<"quantity", IntAt(parts, 3)>>,
        <<"price", DecAt(parts, 4)>>,
        <<"route", StrAt(parts, 5)>>,
        <<"timestamp", TsAt(parts, 6)>>,
        <<"order_id", StrAt(parts, 7)>> >>, parts)

-----------------------------------------------------------------------------
(* Classification by prefix and first token.                               *)

ControlPrefixes ==
    {"%ORDER", "%OrderAct", "%POS", "%BP", "%SHORTINFO", "%LOCATEINFO",
     "%SLRET", "%SLOrder", "%IORDER", "%IPOS", "%ITRADE"}

DataPrefixes == {"$Quote", "$Lv2", "$T&S", "$Chart", "$Bar", "$LDLU", "$SLAvailQueryRet"}

\* parse_control_message with an Unknown record for an unlisted first token
parse_control_message_unknown(message) ==
    LET parts == Split(message)
    IN  IF parts = <<>> \/ parts[1] \notin ControlPrefixes
        THEN [type |-> "UNKNOWN", raw |-> message]
        ELSE [type |-> parts[1], data |-> ListFrom(parts, 1)]

parse_control_message(message) ==
    LET parts == Split(message)
        rest == ListFrom(parts, 1)
    IN  IF parts = <<>> THEN [type |-> "UNKNOWN", raw |-> message]
        ELSE CASE parts[1] = "%ORDER" -> parse_order_message(rest)
               [] parts[1] = "%OrderAct" -> parse_order_action_message(rest)
               [] parts[1] = "%POS" -> parse_position_message(rest)
               [] parts[1] = "%BP" -> parse_buying_power_message(rest)
               [] parts[1] = "%SHORTINFO" -> parse_short_info_message(rest)
               [] parts[1] = "%LOCATEINFO" -> parse_locate_info_message(rest)
               [] parts[1] = "%SLRET" -> parse_locate_return_message(rest)
               [] parts[1] = "%SLOrder" -> parse_locate_order_message(rest)
               [] parts[1] = "%IORDER" -> parse_watch_order_message(rest)
               [] parts[1] = "%IPOS" -> parse_watch_position_message(rest)
               [] parts[1] = "%ITRADE" -> parse_watch_trade_message(rest)
               [] OTHER -> [type |-> parts[1], data |-> rest]

parse_data_message(message) ==
    LET parts == Split(message)
        rest == ListFrom(parts, 1)
    IN  IF parts = <<>> THEN [type |-> "UNKNOWN", raw |-> message]
        ELSE CASE parts[1] = "$Quote" -> parse_quote_message(rest)
               [] parts[1] = "$Lv2" -> parse_level2_message(rest)
               [] parts[1] = "$T&S" -> parse_time_sales_message(rest)
               [] parts[1] = "$Chart" \/ parts[1] = "$Bar" -> parse_chart_message(rest)
               [] parts[1] = "$LDLU" -> parse_limit_down_up_message(rest)
               [] parts[1] = "$SLAvailQueryRet" -> parse_locate_avail_message(rest)
               [] OTHER -> [type |-> parts[1], data |-> rest]

parse_message(raw) ==
    LET message == Strip(raw)
    IN  IF StartsWith(message, "%") THEN parse_control_message(message)
        ELSE IF StartsWith(message, "$") THEN parse_data_message(message)
        ELSE IF StartsWith(message, "ERROR")
             THEN [type |-> "ERROR", message |-> Strip(SliceFrom(message, 6))]
        ELSE IF StartsWith(message, "WARNING")
             THEN [type |-> "WARNING", message |-> Strip(SliceFrom(message, 8))]
        ELSE IF StartsWith(message, "INFO")
             THEN [type |-> "INFO", message |-> Strip(SliceFrom(message, 5))]
        ELSE [type |-> "UNKNOWN", raw |-> message]

-----------------------------------------------------------------------------
(* The market-data cache of market_data.py.  A dict is a function whose    *)
(* domain is its key set.                                                  *)

EmptyDict == [k \in {} |-> PyNone]
DictSet(d, key, v) == [k \in DOMAIN d \cup {key} |-> IF k = key THEN v ELSE d[k]]
DictDel(d, key) == [k \in DOMAIN d \ {key} |-> d[k]]

\* deque(maxlen=1000)
TapeMaxLen == 1000

\* not x, for the symbol a record carries: None, a missing key or ""
Falsy(v) == IsNone(v) \/ (IsStr(v) /\ v.str = "")

\* _create_quote_from_message: None without a symbol, else the Quote
create_quote_from_message(message) ==
    LET symbol == Get(message, "symbol")
    IN  IF Falsy(symbol) THEN PyNone
        ELSE [symbol |-> ToUpper(symbol.str),
              bid |-> GetDefault(message, "bid", PyDec("fin", 0, 0)),
              ask |-> GetDefault(message, "ask", PyDec("fin", 0, 0)),
              last |-> GetDefault(message, "last", PyDec("fin", 0, 0)),
              bid_size |-> GetDefault(message, "bid_size", PyInt(0)),
              ask_size |-> GetDefault(message, "ask_size", PyInt(0)),
              volume |-> GetDefault(message, "volume", PyInt(0)),
              high |-> Get(message, "high"),
              low |-> Get(message, "low"),
              open |-> Get(message, "open"),
              close |-> Get(message, "close"),
              prev_close |-> Get(message, "prev_close"),
              timestamp |-> GetDefault(message, "timestamp", [ts |-> "now"])]

\* what a handler leaves behind: the four caches, whether it raised, and
\* whether it reached _trigger_callbacks
Outcome(q, l2, tape, chart, raised, triggered) ==
    [quotes |-> q, level2_data |-> l2, time_sales |-> tape, chart_data |-> chart,
     raised |-> raised, triggered |-> triggered]

Untouched == Outcome(quotes, level2_data, time_sales, chart_data, FALSE, FALSE)

\* _handle_quote_message
handle_quote_message(message) ==
    LET quote == create_quote_from_message(message)
    IN  IF IsNone(quote) THEN Untouched
        ELSE Outcome(DictSet(quotes, quote.symbol, quote),
                     level2_data, time_sales, chart_data, FALSE, TRUE)

\* the defaultdict's value for a symbol it has not seen
BookOf(l2, symbol) ==
    IF symbol \in DOMAIN l2 THEN l2[symbol] ELSE [BID |-> <<>>, ASK |-> <<>>]

\* ordering two prices raises unless both are numbers that can be ordered
Orderable(price) == IsDec(price) /\ price.dec[1] \in {"fin", "inf"}
SortRaises(entries) ==
    Len(entries) >= 2 /\ \E i \in 1..Len(entries) : ~Orderable(entries[i].price)

\* get_level2_book raises when sorting either side raises
BookViewRaises(l2, symbol) ==
    /\ symbol \in DOMAIN l2
    /\ (SortRaises(l2[symbol].BID) \/ SortRaises(l2[symbol].ASK))

\* the book side after one entry: the maker's old entry dropped, the new
\* one appended when its size is positive
apply_level2_append(book, q) ==
    IF q.size.int > 0 THEN Append(book, q) ELSE book

apply_level2(book, q) ==
    LET kept == SelectSeq(book, LAMBDA e : e.mmid # q.mmid)
    IN  IF q.size.int > 0 THEN Append(kept, q) ELSE kept

\* _handle_level2_message
handle_level2_message(message) ==
    LET symbol == Get(message, "symbol")
    IN  IF Falsy(symbol) THEN Untouched
        ELSE IF IsNone(GetDefault(message, "side", PyStr("")))
        THEN \* None.upper()
             Outcome(quotes, level2_data, time_sales, chart_data, TRUE, FALSE)
        ELSE LET sym == ToUpper(symbol.str)
                 side == ToUpper(GetDefault(message, "side", PyStr("")).str)
             IN  IF side \notin {"BID", "ASK"} THEN Untouched
                 ELSE LET q == [symbol |-> sym, side |-> side,
                                price |-> GetDefault(message, "price", PyDec("fin", 0, 0)),
                                size |-> GetDefault(message, "size", PyInt(0)),
                                mmid |-> GetDefault(message, "mmid", PyStr("")),
                                timestamp |-> GetDefault(message, "timestamp", [ts |-> "now"])]
                          old == BookOf(level2_data, sym)
                          new == [old EXCEPT ![side] = apply_level2(old[side], q)]
                          l2 == DictSet(level2_data, sym, new)
                      IN  Outcome(quotes, l2, time_sales, chart_data,
                                  BookViewRaises(l2, sym), ~BookViewRaises(l2, sym))

\* deque.append with maxlen: the oldest print leaves a full tape
TapeAppend_unbounded(tape, x) == Append(tape, x)

TapeAppend(tape, x) ==
    IF Len(tape) >= TapeMaxLen THEN Append(Tail(tape), x) ELSE Append(tape, x)

\* _handle_time_sales_message
handle_time_sales_message(message) ==
    LET symbol == Get(message, "symbol")
    IN  IF Falsy(symbol) THEN Untouched
        ELSE LET sym == ToUpper(symbol.str)
                 sale == [symbol |-> sym,
                          price |-> GetDefault(message, "price", PyDec("fin", 0, 0)),
                          size |-> GetDefault(message, "size", PyInt(0)),
                          timestamp |-> GetDefault(message, "timestamp", [ts |-> "now"]),
                          condition |-> Get(message, "condition")]
                 tape == IF sym \in DOMAIN time_sales THEN time_sales[sym] ELSE <<>>
             IN  Outcome(quotes, level2_data,
                         DictSet(time_sales, sym, TapeAppend(tape, sale)),
                         chart_data, FALSE, TRUE)

ChartTypes == {"DAY", "MINUTE", "TICK"}

\* _handle_chart_message
handle_chart_message(message) ==
    LET symbol == Get(message, "symbol")
        chart_type_str == Get(message, "chart_type")
    IN  IF Falsy(symbol) \/ Falsy(chart_type_str) THEN Untouched
        ELSE IF chart_type_str.str \notin ChartTypes THEN Untouched
        ELSE LET sym == ToUpper(symbol.str)
                 ct == chart_type_str.str
                 bar == [symbol |-> sym, chart_type |-> ct,
                         open |-> GetDefault(message, "open", PyDec("fin", 0, 0)),
                         high |-> GetDefault(message, "high", PyDec("fin", 0, 0)),
                         low |-> GetDefault(message, "low", PyDec("fin", 0, 0)),
                         close |-> GetDefault(message, "close", PyDec("fin", 0, 0)),
                         volume |-> GetDefault(message, "volume", PyInt(0)),
                         timestamp |-> GetDefault(message, "timestamp", [ts |-> "now"])]
                 bySym == IF sym \in DOMAIN chart_data THEN chart_data[sym] ELSE EmptyDict
                 bars == IF ct \in DOMAIN bySym THEN bySym[ct] ELSE <<>>
             IN  Outcome(quotes, level2_data, time_sales,
                         DictSet(chart_data, sym, DictSet(bySym, ct, Append(bars, bar))),
                         FALSE, TRUE)

\* _register_handlers: the kinds the manager registered a handler for
HandledKinds == {"QUOTE", "LEVEL2", "TIME_SALES", "CHART"}

\* the handler registered for a kind, run on one record
RunHandler(kind, message) ==
    CASE kind = "QUOTE" -> handle_quote_message(message)
      [] kind = "LEVEL2" -> handle_level2_message(message)
      [] kind = "TIME_SALES" -> handle_time_sales_message(message)
      [] kind = "CHART" -> handle_chart_message(message)
      [] OTHER -> Untouched

-----------------------------------------------------------------------------
(* The dispatch core the manager talks to, and the manager's operations.   *)

\* constants.DEFAULT_TIMEOUT, in seconds
DEFAULT_TIMEOUT == 30

Tasks == 1..NumCallers

IdleTask ==
    [pc |-> "idle", symbol |-> "", response |-> PyNone, result |-> PyNone,
     outcome |-> "none", sends |-> 0, issued_at |-> 0, reply_no |-> 0, waited |-> 0]

\* the caller holds nothing
NoRef == [accessor |-> "none", mutated |-> FALSE]

\* the four events of the registry, no callback registered
CallbackEvents == {"quote_update", "level2_update", "time_sales", "chart_update"}
NoCallbacks == [e \in CallbackEvents |-> <<>>]

LocateCallers == 1..NumLocateCallers

\* a locate call not yet made
IdleLocate ==
    [pc |-> "idle", op |-> "none", symbol |-> "", shares |-> 0, current_price |-> 0,
     auto_purchase |-> FALSE, analysis |-> [recommendation |-> "none"],
     raised |-> "", inquiries |-> 0, answer |-> "", inquiry_done_at |-> 0]

\* no inquiry outstanding, no cooldown running
FreeGuard == [holder |-> 0, free_at |-> 0]

\* no risk or strategy call made
NoCall == [fn |-> "none"]

MarketInit ==
    /\ quotes = EmptyDict
    /\ level2_data = EmptyDict
    /\ time_sales = EmptyDict
    /\ chart_data = EmptyDict
    /\ quote_subs = {}
    /\ level2_subs = {}
    /\ ts_subs = {}
    /\ pending = <<>>
    /\ task = [t \in Tasks |-> IdleTask]
    /\ now = 0
    /\ events = 0
    /\ calls = 0
    /\ last = [op |-> "init"]
    /\ held = NoRef
    /\ callbacks = NoCallbacks
    /\ invoked = <<>>
    /\ rcall = NoCall
    /\ orders = <<>>
    /\ ltask = [c \in LocateCallers |-> IdleLocate]
    /\ guard = FreeGuard
    /\ wire = <<>>

RemoveAt(seq, i) == SubSeq(seq, 1, i - 1) \o SubSeq(seq, i + 1, Len(seq))

\* the positions of the pending requests that expect a kind
Waiting(kind) == {i \in 1..Len(pending) : pending[i].kind = kind}

\* the pending request an event of a kind resolves: the oldest one
Oldest_newest(kind) == CHOOSE i \in Waiting(kind) : \A j \in Waiting(kind) : i >= j

Oldest(kind) == CHOOSE i \in Waiting(kind) : \A j \in Waiting(kind) : i <= j

\* the event a handler passes to _trigger_callbacks
EventOf(kind) ==
    CASE kind = "QUOTE" -> "quote_update"
      [] kind = "LEVEL2" -> "level2_update"
      [] kind = "TIME_SALES" -> "time_sales"
      [] kind = "CHART" -> "chart_update"
      [] OTHER -> "none"

\* The callbacks a caller may register, named by what they do when run:
\* return, raise, unregister themselves, or register the callback "late".
CallbackNames == {"plain", "raiser", "quitter", "recruiter", "late"}

\* list.remove(x): the first occurrence goes
RECURSIVE ListRemove(_, _)
ListRemove(list, x) ==
    IF list = <<>> THEN <<>>
    ELSE IF Head(list) = x THEN Tail(list)
    ELSE <<Head(list)>> \o ListRemove(Tail(list), x)

InList(list, x) == \E i \in 1..Len(list) : list[i] = x

\* register_callback
register_callback(registry, event, callback) ==
    IF event \in DOMAIN registry
    THEN [registry EXCEPT ![event] = Append(@, callback)] ELSE registry

\* unregister_callback
unregister_callback(registry, event, callback) ==
    IF event \in DOMAIN registry /\ InList(registry[event], callback)
    THEN [registry EXCEPT ![event] = ListRemove(@, callback)] ELSE registry

\* the registry once a callback has run
run_callback(registry, event, callback) ==
    CASE callback = "quitter" -> unregister_callback(registry, event, callback)
      [] callback = "recruiter" -> register_callback(registry, event, "late")
      [] OTHER -> registry

\* the for loop of _trigger_callbacks from position i on: it walks the
\* registry's own list, which the callbacks it runs may change
RECURSIVE callbacks_loop(_, _, _, _)
callbacks_loop(registry, event, i, ran) ==
    IF i > Len(registry[event]) THEN [callbacks |-> registry, invoked |-> ran]
    ELSE callbacks_loop(run_callback(registry, event, registry[event][i]), event,
                        i + 1, Append(ran, registry[event][i]))

\* _trigger_callbacks
trigger_callbacks(registry, event) ==
    IF event \in DOMAIN registry THEN callbacks_loop(registry, event, 1, <<>>)
    ELSE [callbacks |-> registry, invoked |-> <<>>]

\* the callbacks a handler's outcome sets off
Triggered(r, kind) ==
    IF r.triggered THEN trigger_callbacks(callbacks, EventOf(kind))
    ELSE [callbacks |-> callbacks, invoked |-> <<>>]

\* what the registered handlers do with a record: nothing when a pending
\* request takes it
HandlerEffect_always(message) == RunHandler(message.type, message)

HandlerEffect(message) ==
    IF Waiting(message.type) # {} THEN Untouched
    ELSE RunHandler(message.type, message)

\* One inbound line: it is parsed; a pending request for its kind takes it,
\* otherwise the handler registered for its kind runs.
Deliver(l) ==
    \E message \in {parse_message(l)} : \E r \in {HandlerEffect(message)} :
      \E cb \in {Triggered(r, message.type)} :
        /\ events' = events + 1
        /\ UNCHANGED <<stratVars, line, parsed, held, locateVars, quote_subs, level2_subs, ts_subs,
                       now, calls>>
        /\ callbacks' = cb.callbacks
        /\ invoked' = cb.invoked
        /\ quotes' = r.quotes
        /\ level2_data' = r.level2_data
        /\ time_sales' = r.time_sales
        /\ chart_data' = r.chart_data
        /\ IF Waiting(message.type) # {}
           THEN \E i \in {Oldest(message.type)} :
                    /\ pending' = RemoveAt(pending, i)
                    /\ task' = [task EXCEPT ![pending[i].task] =
                                    [@ EXCEPT !.pc = "resumed", !.response = message,
                                              !.reply_no = events + 1]]
                    /\ last' = [op |-> "deliver", message |-> message, path |-> "pending",
                                to |-> pending[i].task, raised |-> r.raised,
                                triggered |-> r.triggered]
           ELSE     /\ UNCHANGED <<pending, task>>
                    /\ last' = [op |-> "deliver", message |-> message,
                                path |-> IF message.type \in HandledKinds
                                         THEN "handler" ELSE "none",
                                to |-> 0, raised |-> r.raised, triggered |-> r.triggered]

\* the read loop takes the next of at most max lines
DeliverFrom(lines, max) == events < max /\ \E l \in lines : Deliver(l)

\* get_quote up to its await: a cache hit returns at once; otherwise one
\* GETQUOTE command goes to send_command, which registers the wait or fails.
\* The calls are interchangeable, so they are numbered in the order made.
GetQuoteCall(t, s, ok) ==
    \E symbol \in {ToUpper(s)} :
        /\ task[t].pc = "idle"
        /\ \A u \in Tasks : u < t => task[u].pc # "idle"
        /\ UNCHANGED <<stratVars, line, parsed, appVars, locateVars, cacheVars, subVars, now, events, calls>>
        /\ IF symbol \in DOMAIN quotes
           THEN /\ task' = [task EXCEPT ![t] =
                                [@ EXCEPT !.pc = "done", !.symbol = symbol,
                                          !.result = quotes[symbol], !.outcome = "cached",
                                          !.issued_at = events]]
                /\ UNCHANGED pending
                /\ last' = [op |-> "get_quote", task |-> t, sent |-> <<>>]
           ELSE /\ task' = [task EXCEPT ![t] =
                                [@ EXCEPT !.pc = IF ok THEN "waiting" ELSE "done",
                                          !.symbol = symbol, !.sends = @ + 1,
                                          !.outcome = IF ok THEN "none" ELSE "send_failed",
                                          !.issued_at = events]]
                /\ pending' = IF ok THEN Append(pending, [kind |-> "QUOTE", task |-> t,
                                                          created_at |-> now])
                              ELSE pending
                /\ last' = [op |-> "get_quote", task |-> t,
                            sent |-> <<"GETQUOTE " \o symbol>>]

\* get_quote after its await returned a record
GetQuoteResume_nostore(t) ==
    LET response == task[t].response
        quote == IF Get(response, "type") = "QUOTE"
                 THEN create_quote_from_message(response) ELSE PyNone
    IN  /\ task[t].pc = "resumed"
        /\ UNCHANGED <<stratVars, line, parsed, appVars, locateVars, level2_data, time_sales, chart_data, subVars,
                       pending, now, events, calls>>
        /\ quotes' = quotes
        /\ task' = [task EXCEPT ![t] =
                        [@ EXCEPT !.pc = "done", !.result = quote,
                                  !.outcome = IF IsNone(quote) THEN "no_quote" ELSE "reply"]]
        /\ last' = [op |-> "get_quote_resume", task |-> t, sent |-> <<>>]

GetQuoteResume(t) ==
    LET response == task[t].response
        quote == IF Get(response, "type") = "QUOTE"
                 THEN create_quote_from_message(response) ELSE PyNone
    IN  /\ task[t].pc = "resumed"
        /\ UNCHANGED <<stratVars, line, parsed, appVars, locateVars, level2_data, time_sales, chart_data, subVars,
                       pending, now, events, calls>>
        /\ quotes' = IF IsNone(quote) THEN quotes ELSE DictSet(quotes, task[t].symbol, quote)
        /\ task' = [task EXCEPT ![t] =
                        [@ EXCEPT !.pc = "done", !.result = quote,
                                  !.outcome = IF IsNone(quote) THEN "no_quote" ELSE "reply"]]
        /\ last' = [op |-> "get_quote_resume", task |-> t, sent |-> <<>>]

\* the positions of a task's pending requests
PendingOf(t) == {i \in 1..Len(pending) : pending[i].task = t}

\* how long a task's wait has lasted
Elapsed(t) == now - pending[CHOOSE i \in PendingOf(t) : TRUE].created_at

\* the pending table once a wait expired
Expire_keep(t) == pending

Expire(t) == SelectSeq(pending, LAMBDA p : p.task # t)

\* the wait of a get_quote expires: its pending entry goes, TimeoutError is
\* raised into get_quote, which logs it and returns None
Timeout(t) ==
    /\ task[t].pc = "waiting"
    /\ \E i \in PendingOf(t) : now - pending[i].created_at >= DEFAULT_TIMEOUT
    /\ pending' = Expire(t)
    /\ task' = [task EXCEPT ![t] =
                    [@ EXCEPT !.pc = "done", !.result = PyNone, !.outcome = "timeout",
                              !.waited = Elapsed(t)]]
    /\ last' = [op |-> "timeout", task |-> t, sent |-> <<>>]
    /\ UNCHANGED <<stratVars, line, parsed, appVars, locateVars, cacheVars, subVars, now, events, calls>>

\* time passes; only a wait observes it
Tick ==
    /\ pending # <<>>
    /\ now < MaxClock
    /\ now' = now + ClockStep
    /\ UNCHANGED <<stratVars, line, parsed, appVars, locateVars, cacheVars, subVars, pending, task, events, calls, last>>

\* str.isalnum for the characters of the line alphabet
IsAlnum(s) == Len(s) > 0 /\ \A i \in 1..Len(s) : IsDigit(Ch(s, i)) \/ IsAlpha(Ch(s, i))

\* validate_symbol
validate_symbol(symbol) ==
    /\ symbol # ""
    /\ LET u == ToUpper(Strip(symbol))
       IN  Len(u) >= 1 /\ Len(u) <= 5 /\ IsAlnum(u)

Levels == {"Lv1", "Lv2", "T&S"}

\* subscribe_quote
Subscribe(s, level, ok) ==
    \E symbol \in {ToUpper(s)}, valid \in {validate_symbol(s)}, done \in {validate_symbol(s) /\ ok} :
        /\ calls < MaxCalls
        /\ calls' = calls + 1
        /\ quote_subs' = IF done /\ level = "Lv1" THEN quote_subs \cup {symbol} ELSE quote_subs
        /\ level2_subs' = IF done /\ level = "Lv2" THEN level2_subs \cup {symbol} ELSE level2_subs
        /\ ts_subs' = IF done /\ level = "T&S" THEN ts_subs \cup {symbol} ELSE ts_subs
        /\ last' = [op |-> "subscribe", symbol |-> symbol, level |-> level, ok |-> done,
                    raised |-> IF ~valid THEN "DASInvalidSymbolError"
                               ELSE IF ~ok THEN "DASMarketDataError" ELSE "",
                    sent |-> IF valid THEN <<"SUBSCRIBE " \o symbol \o " " \o level>>
                             ELSE <<>>]
        /\ UNCHANGED <<stratVars, line, parsed, appVars, locateVars, cacheVars, pending, task, now, events>>

\* the Level2 books and the tapes once a symbol is unsubscribed at a level
unsubscribe_caches_all(symbol, level) ==
    [quotes |-> quotes,
     level2_data |-> DictDel(level2_data, symbol),
     time_sales |-> DictDel(time_sales, symbol)]

unsubscribe_caches(symbol, level) ==
    [quotes |-> quotes,
     level2_data |-> IF level = "Lv2" THEN DictDel(level2_data, symbol) ELSE level2_data,
     time_sales |-> IF level = "T&S" THEN DictDel(time_sales, symbol) ELSE time_sales]

\* unsubscribe_quote: a failed send is logged and nothing else happens
Unsubscribe_toggle(s, level, ok) ==
    \E symbol \in {ToUpper(s)}, c \in {unsubscribe_caches(ToUpper(s), level)} :
        /\ calls < MaxCalls
        /\ calls' = calls + 1
        /\ quote_subs' = IF ok /\ level = "Lv1"
                        THEN (IF symbol \in quote_subs THEN quote_subs \ {symbol}
                              ELSE quote_subs \cup {symbol})
                        ELSE quote_subs
        /\ level2_subs' = IF ok /\ level = "Lv2" THEN level2_subs \ {symbol} ELSE level2_subs
        /\ ts_subs' = IF ok /\ level = "T&S" THEN ts_subs \ {symbol} ELSE ts_subs
        /\ quotes' = IF ok THEN c.quotes ELSE quotes
        /\ level2_data' = IF ok THEN c.level2_data ELSE level2_data
        /\ time_sales' = IF ok THEN c.time_sales ELSE time_sales
        /\ last' = [op |-> "unsubscribe", symbol |-> symbol, level |-> level, ok |-> ok,
                    raised |-> "",
                    repeat |-> last.op = "unsubscribe" /\ last.ok
                                /\ last.symbol = symbol /\ last.level = level,
                    sent |-> <<"UNSUBSCRIBE " \o symbol \o " " \o level>>]
        /\ UNCHANGED <<stratVars, line, parsed, appVars, locateVars, chart_data, pending, task, now, events>>

Unsubscribe(s, level, ok) ==
    \E symbol \in {ToUpper(s)}, c \in {unsubscribe_caches(ToUpper(s), level)} :
        /\ calls < MaxCalls
        /\ calls' = calls + 1
        /\ quote_subs' = IF ok /\ level = "Lv1" THEN quote_subs \ {symbol} ELSE quote_subs
        /\ level2_subs' = IF ok /\ level = "Lv2" THEN level2_subs \ {symbol} ELSE level2_subs
        /\ ts_subs' = IF ok /\ level = "T&S" THEN ts_subs \ {symbol} ELSE ts_subs
        /\ quotes' = IF ok THEN c.quotes ELSE quotes
        /\ level2_data' = IF ok THEN c.level2_data ELSE level2_data
        /\ time_sales' = IF ok THEN c.time_sales ELSE time_sales
        /\ last' = [op |-> "unsubscribe", symbol |-> symbol, level |-> level, ok |-> ok,
                    raised |-> "",
                    repeat |-> last.op = "unsubscribe" /\ last.ok
                                /\ last.symbol = symbol /\ last.level = level,
                    sent |-> <<"UNSUBSCRIBE " \o symbol \o " " \o level>>]
        /\ UNCHANGED <<stratVars, line, parsed, appVars, locateVars, chart_data, pending, task, now, events>>

-----------------------------------------------------------------------------
(* The read accessors, and a caller that changes what they returned.       *)

RECURSIVE Pow10(_)
Pow10(n) == IF n = 0 THEN 1 ELSE 10 * Pow10(n - 1)

\* Decimal.__lt__ for two prices that can be ordered
DecLess(a, b) ==
    IF a.dec[1] = "inf" THEN a.dec[2] < 0 /\ ~(b.dec[1] = "inf" /\ b.dec[2] < 0)
    ELSE IF b.dec[1] = "inf" THEN b.dec[2] > 0
    ELSE a.dec[2] * Pow10(b.dec[3]) < b.dec[2] * Pow10(a.dec[3])

\* where sorted() puts one more entry: behind every entry that does not
\* have to follow it, so that equal prices keep their order
RECURSIVE InsertByPrice(_, _, _)
InsertByPrice(sorted, x, reverse) ==
    IF sorted = <<>> THEN <<x>>
    ELSE LET after == IF reverse THEN DecLess(Head(sorted).price, x.price)
                      ELSE DecLess(x.price, Head(sorted).price)
         IN  IF after THEN <<x>> \o sorted
             ELSE <<Head(sorted)>> \o InsertByPrice(Tail(sorted), x, reverse)

\* sorted(entries, key=lambda x: x.price, reverse=reverse)
RECURSIVE SortedByPrice(_, _)
SortedByPrice(entries, reverse) ==
    IF entries = <<>> THEN <<>>
    ELSE InsertByPrice(SortedByPrice(SubSeq(entries, 1, Len(entries) - 1), reverse),
                       entries[Len(entries)], reverse)

\* get_level2_book: new lists of the cached entries, or the TypeError /
\* InvalidOperation of the sort
get_level2_book(symbol) ==
    IF symbol \notin DOMAIN level2_data THEN [bids |-> <<>>, asks |-> <<>>]
    ELSE IF BookViewRaises(level2_data, symbol) THEN Exc("TypeError")
    ELSE [bids |-> SortedByPrice(level2_data[symbol].BID, TRUE),
          asks |-> SortedByPrice(level2_data[symbol].ASK, FALSE)]

\* get_time_sales: a new list of the last limit prints
\* sales[-limit:]: a negative index counts from the end, and -0 is 0, the
\* start of the list
SliceLast(sales, limit) ==
    LET start == IF limit > 0 THEN (IF limit > Len(sales) THEN 0 ELSE Len(sales) - limit)
                 ELSE IF -limit < Len(sales) THEN -limit ELSE Len(sales)
    IN  SubSeq(sales, start + 1, Len(sales))

get_time_sales(symbol, limit) ==
    IF symbol \notin DOMAIN time_sales THEN <<>>
    ELSE LET sales == time_sales[symbol]
         IN  IF Len(sales) > limit THEN SliceLast(sales, limit) ELSE sales

\* the list get_chart_data returns
chart_bars(symbol, chart_type) ==
    IF symbol \in DOMAIN chart_data /\ chart_type \in DOMAIN chart_data[symbol]
    THEN chart_data[symbol][chart_type] ELSE <<>>

\* What a caller holds after a read: the value, whether the list it came
\* in is the cache's own list, and that its objects are the cache's own
\* objects.  The caller uses it before the next inbound line.
Ref(accessor, symbol, key, value, own_list) ==
    [accessor |-> accessor, symbol |-> symbol, key |-> key, value |-> value,
     own_list |-> own_list, epoch |-> events, mutated |-> FALSE]

\* get_quote, cache hit: the cached Quote object itself
ReadQuote(s) ==
    \E symbol \in {ToUpper(s)} :
        /\ symbol \in DOMAIN quotes
        /\ held' = Ref("get_quote", symbol, "", <<quotes[symbol]>>, FALSE)
        /\ calls < MaxCalls /\ calls' = calls + 1
        /\ last' = [op |-> "read", accessor |-> "get_quote", sent |-> <<>>]
        /\ UNCHANGED <<stratVars, line, parsed, cacheVars, subVars, pending, task, now, events,
                       callbacks, invoked, locateVars>>

\* get_level2_book: one side of the view
ReadLevel2Book(s, side) ==
    \E symbol \in {ToUpper(s)} : \E book \in {get_level2_book(ToUpper(s))} :
        /\ ~IsExc(book)
        /\ held' = Ref("get_level2_book", symbol, side,
                       IF side = "BID" THEN book.bids ELSE book.asks, FALSE)
        /\ calls < MaxCalls /\ calls' = calls + 1
        /\ last' = [op |-> "read", accessor |-> "get_level2_book", sent |-> <<>>]
        /\ UNCHANGED <<stratVars, line, parsed, cacheVars, subVars, pending, task, now, events,
                       callbacks, invoked, locateVars>>

\* get_time_sales
ReadTimeSales(s, limit) ==
    \E symbol \in {ToUpper(s)} :
        /\ held' = Ref("get_time_sales", symbol, "", get_time_sales(symbol, limit), FALSE)
        /\ calls < MaxCalls /\ calls' = calls + 1
        /\ last' = [op |-> "read", accessor |-> "get_time_sales", sent |-> <<>>,
                    limit |-> limit]
        /\ UNCHANGED <<stratVars, line, parsed, cacheVars, subVars, pending, task, now, events,
                       callbacks, invoked, locateVars>>

\* get_chart_data: the symbol is validated, one GETCHART command is sent and,
\* a second later, the cached list itself is returned (a new empty list when
\* there is none)
GetChartData(s, chart_type, ok) ==
    \E symbol \in {ToUpper(s)}, valid \in {validate_symbol(s)} :
        /\ calls < MaxCalls /\ calls' = calls + 1
        /\ held' = IF valid /\ ok
                   THEN Ref("get_chart_data", symbol, chart_type,
                            chart_bars(symbol, chart_type),
                            symbol \in DOMAIN chart_data
                                /\ chart_type \in DOMAIN chart_data[symbol])
                   ELSE NoRef
        /\ last' = [op |-> "read", accessor |-> "get_chart_data",
                    raised |-> IF ~valid THEN "DASInvalidSymbolError"
                               ELSE IF ~ok THEN "DASMarketDataError" ELSE "",
                    sent |-> IF valid
                             THEN <<"GETCHART " \o symbol \o " " \o chart_type
                                        \o " BARS=100">>
                             ELSE <<>>]
        /\ UNCHANGED <<stratVars, line, parsed, cacheVars, subVars, pending, task, now, events,
                       callbacks, invoked, locateVars>>

\* the attribute assignment a caller makes on an object it was handed
Tamper(accessor, obj) ==
    CASE accessor = "get_quote" -> [obj EXCEPT !.last = PyDec("fin", 0, 0)]
      [] accessor = "get_level2_book" -> [obj EXCEPT !.size = PyInt(0)]
      [] accessor = "get_time_sales" -> [obj EXCEPT !.price = PyDec("fin", 0, 0)]
      [] accessor = "get_chart_data" -> [obj EXCEPT !.close = PyDec("fin", 0, 0)]

\* the position in the cache's list of the i-th object the caller holds
CacheIndex(ref, i) ==
    CASE ref.accessor = "get_level2_book" ->
            CHOOSE j \in 1..Len(level2_data[ref.symbol][ref.key]) :
                level2_data[ref.symbol][ref.key][j] = ref.value[i]
      [] ref.accessor = "get_time_sales" ->
            Len(time_sales[ref.symbol]) - Len(ref.value) + i
      [] OTHER -> i

\* the caches after the caller assigned to an attribute of the i-th object:
\* the object is the one the cache holds
caches_after_setattr(ref, i) ==
    LET obj == Tamper(ref.accessor, ref.value[i])
        j == CacheIndex(ref, i)
    IN  [quotes |-> IF ref.accessor = "get_quote"
                    THEN [quotes EXCEPT ![ref.symbol] = obj] ELSE quotes,
         level2_data |-> IF ref.accessor = "get_level2_book"
                         THEN [level2_data EXCEPT ![ref.symbol][ref.key][j] = obj]
                         ELSE level2_data,
         time_sales |-> IF ref.accessor = "get_time_sales"
                        THEN [time_sales EXCEPT ![ref.symbol][j] = obj]
                        ELSE time_sales,
         chart_data |-> IF ref.accessor = "get_chart_data"
                        THEN [chart_data EXCEPT ![ref.symbol][ref.key][j] = obj]
                        ELSE chart_data]

\* the caller assigns to an attribute of an object it was handed
CallerSetsAttribute(i) ==
    /\ held.accessor # "none" /\ ~held.mutated
    /\ held.epoch = events
    /\ i \in 1..Len(held.value)
    /\ \E c \in {caches_after_setattr(held, i)} :
        /\ quotes' = c.quotes
        /\ level2_data' = c.level2_data
        /\ time_sales' = c.time_sales
        /\ chart_data' = c.chart_data
    /\ held' = [held EXCEPT !.value[i] = Tamper(held.accessor, @), !.mutated = TRUE]
    /\ last' = [op |-> "setattr", accessor |-> held.accessor, sent |-> <<>>]
    /\ UNCHANGED <<stratVars, line, parsed, subVars, pending, task, now, events, calls,
                   callbacks, invoked, locateVars>>

\* the caller empties the list it was handed: the cache's own list when
\* the accessor returned that
CallerClearsList ==
    /\ held.accessor \notin {"none", "get_quote"} /\ ~held.mutated
    /\ held.epoch = events
    /\ chart_data' = IF held.own_list
                     THEN [chart_data EXCEPT ![held.symbol][held.key] = <<>>]
                     ELSE chart_data
    /\ held' = [held EXCEPT !.value = <<>>, !.mutated = TRUE]
    /\ last' = [op |-> "clear", accessor |-> held.accessor, sent |-> <<>>]
    /\ UNCHANGED <<stratVars, line, parsed, quotes, level2_data, time_sales, subVars, pending, task,
                   now, events, calls, callbacks, invoked, locateVars>>

\* a caller registers a callback: register_callback
RegisterCallback(event, callback) ==
    /\ calls < MaxCalls /\ calls' = calls + 1
    /\ callbacks' = register_callback(callbacks, event, callback)
    /\ last' = [op |-> "register", event |-> event, callback |-> callback, sent |-> <<>>]
    /\ UNCHANGED <<stratVars, line, parsed, cacheVars, subVars, pending, task, now, events,
                   held, invoked, locateVars>>

\* a caller unregisters a callback: unregister_callback
UnregisterCallback(event, callback) ==
    /\ calls < MaxCalls /\ calls' = calls + 1
    /\ callbacks' = unregister_callback(callbacks, event, callback)
    /\ last' = [op |-> "unregister", event |-> event, callback |-> callback, sent |-> <<>>]
    /\ UNCHANGED <<stratVars, line, parsed, cacheVars, subVars, pending, task, now, events,
                   held, invoked, locateVars>>

-----------------------------------------------------------------------------
(* SmartLocateManager: the locate analysis.  Money is counted in whole     *)
(* units: a price in cents, a locate rate and a locate cost in mills       *)
(* (thousandths of a dollar).                                              *)

\* the defaults of SmartLocateManager.__init__
max_volume_pct == 1
max_cost_pct_tenths == 15
max_total_cost_mills == 2500
block_size == 100

Min(a, b) == IF a < b THEN a ELSE b

\* the dict analyze_locate starts from
NewAnalysis(symbol, desired_shares) ==
    [symbol |-> symbol, desired_shares |-> desired_shares, success |-> FALSE,
     recommendation |-> "REJECT", reasons |-> <<>>]

\* Step 1 with the quote get_quote returned: the price in cents (0 stands
\* for no price passed, -1 for an infinite last price) and the volume, or
\* the exception of comparing a last price that is missing or not a number
PriceAndVolume(current_price, quote) ==
    IF current_price # 0
    THEN [current_price |-> current_price,
          volume |-> IF IsNone(quote) THEN PyInt(0) ELSE quote.volume]
    ELSE IF IsNone(quote) THEN [current_price |-> 100, volume |-> PyInt(0)]
    ELSE IF ~IsDec(quote.last) THEN Exc("TypeError")
    ELSE IF quote.last.dec[1] \in {"nan", "snan"} THEN Exc("InvalidOperation")
    ELSE IF quote.last.dec[2] > 0
         THEN [current_price |-> IF quote.last.dec[1] = "inf" THEN -1
                                 ELSE (quote.last.dec[2] * 100) \div Pow10(quote.last.dec[3]),
               volume |-> quote.volume]
    ELSE [current_price |-> 100, volume |-> PyInt(0)]

\* the shares rounded to whole blocks
round_to_block_down(allowed_shares) == (allowed_shares \div block_size) * block_size

round_to_block(allowed_shares) ==
    ((allowed_shares + block_size - 1) \div block_size) * block_size

\* Step 2: the volume cap and the block rounding
VolumeControl(analysis, desired_shares, volume) ==
    LET max_shares_by_volume == (volume * max_volume_pct) \div 100
        allowed_shares == IF volume > 0 THEN Min(desired_shares, max_shares_by_volume)
                          ELSE Min(desired_shares, 100)
        rounded == round_to_block(allowed_shares)
        locate_shares == IF rounded < allowed_shares THEN block_size ELSE rounded
        reasons == IF volume > 0
                   THEN (IF desired_shares > max_shares_by_volume
                         THEN Append(analysis.reasons, "volume_limit")
                         ELSE analysis.reasons)
                   ELSE Append(analysis.reasons, "no_volume")
    IN  [k \in DOMAIN analysis \cup {"volume", "allowed_shares", "locate_shares"} |->
            CASE k = "volume" -> volume
              [] k = "allowed_shares" -> allowed_shares
              [] k = "locate_shares" -> locate_shares
              [] k = "reasons" -> reasons
              [] OTHER -> analysis[k]]

\* d with some keys set
Update(d, more) ==
    [k \in DOMAIN d \cup DOMAIN more |-> IF k \in DOMAIN more THEN more[k] ELSE d[k]]

\* float(locate_info.get("rate", 0) or 0), in mills
RateOf(locate_info) == IF "rate" \in DOMAIN locate_info THEN locate_info.rate ELSE 0

\* Step 4: the messages of the caps a priced locate exceeds; the cost as a
\* percentage of the position is total_cost / position_value * 100, and 999
\* when the position is worth nothing
CostReasons_total_only(current_price, total_cost, position_value) ==
    IF total_cost > max_total_cost_mills THEN <<"total_cost">> ELSE <<>>

CostReasons(current_price, total_cost, position_value) ==
    LET over_total == total_cost > max_total_cost_mills
        over_pct == IF current_price = -1 THEN FALSE
                    ELSE IF position_value > 0
                    THEN total_cost * 100 > max_cost_pct_tenths * position_value
                    ELSE TRUE
    IN  (IF over_total THEN <<"total_cost">> ELSE <<>>)
            \o (IF over_pct THEN <<"cost_pct">> ELSE <<>>)

\* Steps 3 and 4 with what inquire_locate_price returned or raised
EvaluatePricing(analysis, current_price, result) ==
    IF result.kind \in {"raise", "timeout"}
    THEN Update(analysis, [reasons |-> Append(analysis.reasons, "error")])
    ELSE IF result.kind = "none"
    THEN Update(analysis, [reasons |-> Append(analysis.reasons, "no_pricing")])
    ELSE LET rate == RateOf(result.info)
             total_cost == rate * analysis.locate_shares
             position_value == current_price * analysis.locate_shares
             reasons == CostReasons(current_price, total_cost, position_value)
         IN  IF rate = 0
             THEN Update(analysis,
                         [locate_rate |-> rate, is_etb |-> TRUE, locate_total_cost |-> 0,
                          recommendation |-> "APPROVE", success |-> TRUE,
                          reasons |-> Append(analysis.reasons, "etb")])
             ELSE IF reasons # <<>>
             THEN Update(analysis,
                         [locate_rate |-> rate, is_etb |-> FALSE,
                          locate_total_cost |-> total_cost,
                          recommendation |-> "REJECT",
                          reasons |-> analysis.reasons \o reasons])
             ELSE Update(analysis,
                         [locate_rate |-> rate, is_etb |-> FALSE,
                          locate_total_cost |-> total_cost,
                          recommendation |-> "APPROVE", success |-> TRUE,
                          reasons |-> Append(analysis.reasons, "tier")])

\* sub in s
Contains(s, sub) ==
    \E i \in 1..(Len(s) + 1) :
        i + Len(sub) - 1 <= Len(s) /\ SubSeq(s, i, i + Len(sub) - 1) = sub

\* _check_available_locates with the response send_command returned
check_available_locates(response) ==
    IF IsNone(response) \/ response.str = "" THEN 0
    ELSE IF ~Contains(response.str, "$SLAvailQueryRet") THEN 0
    ELSE LET parts == Split(response.str)
         IN  IF Len(parts) >= 4 /\ AllDigits(parts[4]) THEN DigitsVal(parts[4]) ELSE 0

\* a command a locate call put on the wire
Sent(c, command, text) == [caller |-> c, command |-> command, text |-> text, at |-> now]

\* the seconds the client keeps between the end of one locate-price inquiry
\* and the start of the next
InquiryCooldown == 5

\* the client's inquiry guard lets a caller through
GuardFree_always == TRUE

GuardFree == guard.holder = 0 /\ now >= guard.free_at

\* analyze_locate or ensure_locate is called
LocateCall(c, op, symbol, shares, current_price, auto_purchase) ==
    /\ ltask[c].pc = "idle"
    /\ \A d \in LocateCallers : d < c => ltask[d].pc # "idle"
    /\ ltask' = [ltask EXCEPT ![c] =
                    [IdleLocate EXCEPT !.pc = "price", !.op = op, !.symbol = symbol,
                                       !.shares = shares, !.current_price = current_price,
                                       !.auto_purchase = auto_purchase /\ op = "ensure",
                                       !.analysis = NewAnalysis(symbol, shares)]]
    /\ UNCHANGED <<stratVars, parserVars, cacheVars, subVars, coreVars, appVars, guard, wire>>

\* analyze_locate, Steps 1 and 2: subscribe_quote and get_quote when no price
\* was passed, get_quote alone for the volume otherwise; reply is the line
\* that answers the one-shot query when the quote is not cached
FetchPrice(c, ok, reply) ==
    /\ ltask[c].pc = "price"
    /\ \E t \in {ltask[c]} :
       \E symbol \in {ToUpper(ltask[c].symbol)} :
       \E subscribing \in {ltask[c].current_price = 0} :
       \E valid \in {validate_symbol(ltask[c].symbol)} :
       \E cached \in {ToUpper(ltask[c].symbol) \in DOMAIN quotes} :
       \E quote \in {IF ToUpper(ltask[c].symbol) \in DOMAIN quotes
                     THEN quotes[ToUpper(ltask[c].symbol)]
                     ELSE IF reply = "" THEN PyNone
                     ELSE IF Get(parse_message(reply), "type") = "QUOTE"
                     THEN create_quote_from_message(parse_message(reply))
                     ELSE PyNone} :
       \E pv \in {PriceAndVolume(ltask[c].current_price, quote)} :
           /\ IF subscribing /\ ~(valid /\ ok)
              THEN \* subscribe_quote raised, outside any try
                   /\ ltask' = [ltask EXCEPT ![c] =
                                   [@ EXCEPT !.pc = "raised",
                                             !.raised = IF valid THEN "DASMarketDataError"
                                                        ELSE "DASInvalidSymbolError"]]
                   /\ wire' = IF valid THEN Append(wire, Sent(c, "SUBSCRIBE", symbol \o " Lv1"))
                              ELSE wire
                   /\ UNCHANGED <<quotes, quote_subs>>
              ELSE /\ quote_subs' = IF subscribing THEN quote_subs \cup {symbol} ELSE quote_subs
                   /\ quotes' = IF cached \/ IsNone(quote) THEN quotes
                                ELSE DictSet(quotes, symbol, quote)
                   /\ wire' = wire
                                \o (IF subscribing THEN <<Sent(c, "SUBSCRIBE", symbol \o " Lv1")>>
                                    ELSE <<>>)
                                \o (IF cached THEN <<>> ELSE <<Sent(c, "GETQUOTE", symbol)>>)
                   /\ ltask' = [ltask EXCEPT ![c] =
                                   IF IsExc(pv)
                                   THEN [@ EXCEPT !.pc = "raised", !.raised = pv.exc]
                                   ELSE IF ~IsInt(pv.volume)
                                   THEN [@ EXCEPT !.pc = "raised", !.raised = "TypeError"]
                                   ELSE [@ EXCEPT !.pc = "inquire",
                                                  !.current_price = pv.current_price,
                                                  !.analysis =
                                                      VolumeControl(Update(t.analysis,
                                                                          [current_price |-> pv.current_price]),
                                                                    t.shares, pv.volume.int)]]
           /\ UNCHANGED <<stratVars, parserVars, level2_data, time_sales, chart_data, level2_subs, ts_subs,
                          coreVars, appVars, guard>>

\* inquire_locate_price is entered: the caller passes the guard and the
\* inquiry goes out, always for all routes
InquireStart(c) ==
    /\ ltask[c].pc = "inquire"
    /\ GuardFree
    /\ guard' = [holder |-> c, free_at |-> guard.free_at]
    /\ wire' = Append(wire, Sent(c, "SLPRICEINQUIRE",
                                 ltask[c].symbol \o " " \o py_str(ltask[c].analysis.locate_shares)
                                     \o " ALLROUTE"))
    /\ ltask' = [ltask EXCEPT ![c] = [@ EXCEPT !.pc = "inquiring", !.inquiries = @ + 1]]
    /\ UNCHANGED <<stratVars, parserVars, cacheVars, subVars, coreVars, appVars>>

\* inquire_locate_price returns or raises, the cooldown starts, and
\* analyze_locate runs Steps 3 and 4 to its return
InquireEnd(c, result) ==
    /\ ltask[c].pc = "inquiring"
    /\ \E analysis \in {EvaluatePricing(ltask[c].analysis, ltask[c].current_price, result)} :
        /\ guard' = [holder |-> 0, free_at |-> now + InquiryCooldown]
        /\ ltask' = [ltask EXCEPT ![c] =
                        [@ EXCEPT !.pc = IF ltask[c].op = "ensure" /\ analysis.success
                                         THEN "check" ELSE "done",
                                  !.analysis = analysis, !.answer = result.kind,
                                  !.inquiry_done_at = now]]
        /\ UNCHANGED <<stratVars, parserVars, cacheVars, subVars, coreVars, appVars, wire>>

\* ensure_locate goes on to the purchase
ShouldPurchase_unasked(t) == t.analysis.recommendation = "APPROVE"

ShouldPurchase(t) == t.auto_purchase /\ t.analysis.recommendation = "APPROVE"

\* ensure_locate checks what is already located; raised is an exception of
\* the availability query
CheckAvailable(c, raised, response) ==
    /\ ltask[c].pc = "check"
    /\ \E t \in {ltask[c]} :
       \E current_locates \in {IF raised THEN 0 ELSE check_available_locates(response)} :
           /\ wire' = Append(wire, Sent(c, "SLAvailQuery", t.symbol))
           /\ ltask' = [ltask EXCEPT ![c] =
                           IF ~raised /\ current_locates >= t.shares
                           THEN [@ EXCEPT !.pc = "done",
                                          !.analysis = Update(t.analysis,
                                                              [already_available |-> TRUE,
                                                               current_locates |-> current_locates])]
                           ELSE [@ EXCEPT !.pc = IF ShouldPurchase(t) THEN "purchase" ELSE "done",
                                          !.analysis = Update(t.analysis,
                                                              [current_locates |-> current_locates])]]
           /\ UNCHANGED <<stratVars, parserVars, cacheVars, subVars, coreVars, appVars, guard>>

\* ensure_locate buys the locate: locate_stock raises, or returns a falsy or
\* a truthy result
Purchase(c, outcome) ==
    /\ ltask[c].pc = "purchase"
    /\ \E t \in {ltask[c]} :
           /\ wire' = Append(wire, Sent(c, "SLNEWORDER",
                                        t.symbol \o " " \o py_str(t.analysis.locate_shares)))
           /\ ltask' = [ltask EXCEPT ![c] =
                           CASE outcome = "raise" ->
                                   [@ EXCEPT !.pc = "done",
                                             !.analysis = Update(t.analysis, [purchase_error |-> TRUE])]
                             [] outcome = "falsy" ->
                                   [@ EXCEPT !.pc = "done",
                                             !.analysis = Update(t.analysis, [purchase_failed |-> TRUE])]
                             [] OTHER ->
                                   [@ EXCEPT !.pc = "verify",
                                             !.analysis = Update(t.analysis,
                                                                 [purchase_submitted |-> TRUE])]]
           /\ UNCHANGED <<stratVars, parserVars, cacheVars, subVars, coreVars, appVars, guard>>

\* ensure_locate looks again after the purchase was submitted
VerifyPurchase(c, raised, response) ==
    /\ ltask[c].pc = "verify"
    /\ \E t \in {ltask[c]} :
       \E new_available \in {IF raised THEN 0 ELSE check_available_locates(response)} :
           /\ wire' = Append(wire, Sent(c, "SLAvailQuery", t.symbol))
           /\ ltask' = [ltask EXCEPT ![c] =
                           [@ EXCEPT !.pc = "done",
                                     !.analysis =
                                         IF raised THEN Update(t.analysis, [purchase_error |-> TRUE])
                                         ELSE IF new_available >= t.shares
                                         THEN Update(t.analysis, [purchase_confirmed |-> TRUE])
                                         ELSE t.analysis]]
           /\ UNCHANGED <<stratVars, parserVars, cacheVars, subVars, coreVars, appVars, guard>>

\* time passes while a locate call waits for the cooldown
LocateTick ==
    /\ \E c \in LocateCallers : ltask[c].pc # "idle"
    /\ now < MaxClock
    /\ now' = now + ClockStep
    /\ UNCHANGED <<stratVars, parserVars, cacheVars, subVars, pending, task, events, calls, last,
                   appVars, locateVars>>

-----------------------------------------------------------------------------
(* RiskCalculator and calculate_pnl.  Money is counted in mills; a value   *)
(* that comes out of a division is kept as the fraction n / d, d > 0.      *)

Abs(n) == IF n < 0 THEN -n ELSE n

\* int(a / b) for b > 0: the quotient cut towards zero
TruncDiv(a, b) == IF a >= 0 THEN a \div b ELSE -((-a) \div b)

Frac(n, d) == [n |-> n, d |-> d]
FracEq(x, y) == x.n * y.d = y.n * x.d

\* calculate_shares_for_risk; max_shares is None or an int
calculate_shares_for_risk(entry, stop, risk, slip, min_shares, max_shares) ==
    LET risk_per_share == Abs(entry - stop) + slip
        shares_int == IF risk_per_share <= 0 THEN 0 ELSE TruncDiv(risk, risk_per_share)
        raised == IF shares_int < min_shares THEN min_shares ELSE shares_int
    IN  IF risk_per_share <= 0 THEN min_shares
        ELSE IF Truthy(max_shares) /\ raised > max_shares.int THEN max_shares.int
        ELSE raised

\* calculate_position_risk; the stop may be a fraction
calculate_position_risk(entry, stop, shares, slip) ==
    Frac((Abs(entry * stop.d - stop.n) + slip * stop.d) * shares, stop.d)

\* suggest_stop_price: the stop, or the ValueError it raises
suggest_stop_price(entry, risk, shares, side, slip) ==
    IF shares <= 0 THEN Exc("ValueError")
    ELSE IF ToLower(side) = "long" THEN Frac(entry * shares - (risk - slip * shares), shares)
    ELSE IF ToLower(side) = "short" THEN Frac(entry * shares + (risk - slip * shares), shares)
    ELSE Exc("ValueError")

\* calculate_position_size
calculate_position_size(entry, stop, risk, slip, min_shares, max_shares) ==
    LET shares == calculate_shares_for_risk(entry, stop, risk, slip, min_shares, max_shares)
        risk_per_share == Abs(entry - stop) + slip
    IN  [shares |-> shares, risk_dollars |-> risk_per_share * shares,
         risk_per_share |-> risk_per_share, entry_price |-> entry, stop_price |-> stop,
         position_value |-> entry * shares]

\* validate_position_against_buying_power at the default margin requirement
\* of 1.0: the position is within the buying power
validate_position_against_buying_power(entry, shares, buying_power) ==
    ~(entry * shares > buying_power)

\* calculate_pnl
calculate_pnl_long_only(quantity, avg_cost, current_price) ==
    IF quantity = 0
    THEN [realized_pnl |-> 0, unrealized_pnl |-> 0, pnl_percent |-> Frac(0, 1)]
    ELSE LET position_cost == Abs(quantity) * avg_cost
             current_value == Abs(quantity) * current_price
             unrealized_pnl == current_value - position_cost
         IN  [unrealized_pnl |-> unrealized_pnl,
              pnl_percent |-> IF position_cost # 0
                              THEN Frac(Sgn(position_cost) * unrealized_pnl * 100,
                                        Abs(position_cost))
                              ELSE Frac(0, 1),
              position_cost |-> position_cost, current_value |-> current_value]

calculate_pnl(quantity, avg_cost, current_price) ==
    IF quantity = 0
    THEN [realized_pnl |-> 0, unrealized_pnl |-> 0, pnl_percent |-> Frac(0, 1)]
    ELSE LET position_cost == quantity * avg_cost
             current_value == quantity * current_price
             unrealized_pnl == current_value - position_cost
         IN  [unrealized_pnl |-> unrealized_pnl,
              pnl_percent |-> IF position_cost # 0
                              THEN Frac(Sgn(position_cost) * unrealized_pnl * 100,
                                        Abs(position_cost))
                              ELSE Frac(0, 1),
              position_cost |-> position_cost, current_value |-> current_value]

\* a call of one of these functions, from rest: the arguments and the value
\* returned
Calc(fn, args, result) ==
    /\ rcall = NoCall
    /\ rcall' = [fn |-> fn, args |-> args, result |-> result]
    /\ UNCHANGED <<orders, parserVars, cacheVars, subVars, coreVars, appVars, locateVars>>

SharesForRisk(entry, stop, risk, slip, min_shares, max_shares) ==
    Calc("calculate_shares_for_risk",
         [entry |-> entry, stop |-> stop, risk |-> risk, slip |-> slip,
          min_shares |-> min_shares, max_shares |-> max_shares],
         calculate_shares_for_risk(entry, stop, risk, slip, min_shares, max_shares))

PositionSize(entry, stop, risk, slip, min_shares, max_shares) ==
    Calc("calculate_position_size",
         [entry |-> entry, stop |-> stop, risk |-> risk, slip |-> slip,
          min_shares |-> min_shares, max_shares |-> max_shares],
         calculate_position_size(entry, stop, risk, slip, min_shares, max_shares))

PositionRisk(entry, stop, shares, slip) ==
    Calc("calculate_position_risk",
         [entry |-> entry, stop |-> stop, shares |-> shares, slip |-> slip],
         calculate_position_risk(entry, stop, shares, slip))

SuggestStop(entry, risk, shares, side, slip) ==
    Calc("suggest_stop_price",
         [entry |-> entry, risk |-> risk, shares |-> shares, side |-> side, slip |-> slip],
         suggest_stop_price(entry, risk, shares, side, slip))

CalculatePnl(quantity, avg_cost, current_price) ==
    Calc("calculate_pnl",
         [quantity |-> quantity, avg_cost |-> avg_cost, current_price |-> current_price],
         calculate_pnl(quantity, avg_cost, current_price))

-----------------------------------------------------------------------------
(* TradingStrategies.  The clock is the time of day in New York, in        *)
(* minutes after midnight.                                                 *)

PREMARKET_START == 240
PREMARKET_END == 570
RTH_START == 570
RTH_END == 960
AFTERHOURS_START == 960
AFTERHOURS_END == 1200

get_current_session(t) ==
    IF PREMARKET_START <= t /\ t < PREMARKET_END THEN "premarket"
    ELSE IF RTH_START <= t /\ t < RTH_END THEN "rth"
    ELSE IF AFTERHOURS_START <= t /\ t < AFTERHOURS_END THEN "afterhours"
    ELSE "closed"

\* the members of the enumerations, each with its value; two names with
\* one value are one member
OrderType ==
    [MARKET |-> "MKT", LIMIT |-> "LIMIT", STOP |-> "STOPMKT", STOP_LIMIT |-> "STOPLMT",
     STOP_TRAILING |-> "STOPTRAILING", STOP_RANGE |-> "STOPRANGE",
     STOP_RANGE_MARKET |-> "STOPRANGEMKT", PEG_MID |-> "PEG MID", PEG_AGG |-> "PEG AGG",
     PEG_PRIM |-> "PEG PRIM", PEG_LAST |-> "PEG LAST", HIDDEN |-> "HIDDEN",
     RESERVE |-> "RESERVE"]

OrderSide ==
    [BUY |-> "B", SELL |-> "S", SHORT |-> "SS", COVER |-> "S", BUY_TO_OPEN |-> "BO",
     BUY_TO_CLOSE |-> "BC", SELL_TO_OPEN |-> "SO", SELL_TO_CLOSE |-> "SC"]

\* Enum.NAME: the member, or the AttributeError of a name the class lacks
Attr(enum, name) == IF name \in DOMAIN enum THEN enum[name] ELSE Exc("AttributeError")

\* a Decimal price in mills
Mills(d) == (d.dec[2] * 1000) \div Pow10(d.dec[3])

\* StrategyResult
StrategyResult(success, entry_order_id, stop_order_id, target_order_id, message, details) ==
    [success |-> success, entry_order_id |-> entry_order_id, stop_order_id |-> stop_order_id,
     target_order_id |-> target_order_id, message |-> message, details |-> details]

Failure(message) == StrategyResult(FALSE, PyNone, PyNone, PyNone, message, PyNone)

\* what a strategy call leaves behind: its result and its requests to the
\* order manager
Done(result, requests) == [result |-> result, orders |-> requests]

\* a send_order request; answer is "ok" for an Order returned and "none"
\* for no Order
SendOrder(symbol, side, quantity, order_type, price, stop_price, answer) ==
    [call |-> "send_order", symbol |-> symbol, side |-> side, quantity |-> quantity,
     order_type |-> order_type, price |-> price, stop_price |-> stop_price,
     answer |-> answer]

\* the id of the Order the n-th request returned
OrderId(n, answer) == IF answer = "ok" THEN PyStr("ORD" \o py_str(n)) ELSE PyNone

\* the price a strategy works with: mid, bid or ask of the quote, or the
\* price passed for "limit"; a quote without a bid or an ask raises
ActualEntry(entry_type, quote, entry_price) ==
    CASE ToLower(entry_type) = "mid" ->
            IF IsDec(quote.bid) /\ IsDec(quote.ask)
            THEN PyInt((Mills(quote.bid) + Mills(quote.ask)) \div 2) ELSE Exc("TypeError")
      [] ToLower(entry_type) = "bid" ->
            IF IsDec(quote.bid) THEN PyInt(Mills(quote.bid)) ELSE Exc("TypeError")
      [] ToLower(entry_type) = "ask" ->
            IF IsDec(quote.ask) THEN PyInt(Mills(quote.ask)) ELSE Exc("TypeError")
      [] ToLower(entry_type) = "limit" -> PyInt(entry_price)
      [] OTHER -> PyNone

\* the type of the entry order
entry_order_type_rth(in_extended_hours, entry_type) ==
    IF ToLower(entry_type) = "limit" THEN OrderType.LIMIT ELSE OrderType.MARKET

entry_order_type(in_extended_hours, entry_type) ==
    IF in_extended_hours THEN OrderType.LIMIT
    ELSE IF ToLower(entry_type) = "limit" THEN OrderType.LIMIT
    ELSE OrderType.MARKET

\* the buying-power test passes, or is not made
buying_power_ok(validate_buying_power, bp, actual_entry, shares) ==
    \/ ~validate_buying_power
    \/ ~Truthy(bp)
    \/ validate_position_against_buying_power(actual_entry, shares, bp.int)

\* buy_with_risk_stop (long TRUE) and sell_with_risk_stop (long FALSE), from
\* the entry order on; sends are the answers of the order manager
place_orders(long, a, session, actual_entry, shares, sends) ==
    LET in_extended_hours == session \in {"premarket", "afterhours"}
        type == entry_order_type(in_extended_hours, a.entry_type)
        entry == SendOrder(a.symbol, IF long THEN OrderSide.BUY ELSE OrderSide.SHORT, shares,
                           type, IF type = OrderType.LIMIT THEN PyInt(actual_entry) ELSE PyNone,
                           PyNone, sends[1])
        stop_type == Attr(OrderType, "STOP_MARKET")
        stop == SendOrder(a.symbol, IF long THEN OrderSide.SELL ELSE OrderSide.COVER, shares,
                          stop_type, PyNone, PyInt(a.stop_price), sends[2])
        stops == IF in_extended_hours THEN <<>> ELSE <<stop>>
        target == SendOrder(a.symbol, IF long THEN OrderSide.SELL ELSE OrderSide.COVER, shares,
                            OrderType.LIMIT, a.target_price, PyNone, sends[3])
        targets == IF Truthy(a.target_price) THEN <<target>> ELSE <<>>
        details == [shares |-> shares, session |-> session,
                    stop_placed |-> ~in_extended_hours /\ sends[2] = "ok",
                    suggested_stop |-> IF in_extended_hours THEN PyInt(a.stop_price) ELSE PyNone]
    IN  IF sends[1] # "ok" THEN Done(Failure("Failed to place entry order"), <<entry>>)
        ELSE IF ~in_extended_hours /\ IsExc(stop_type)
        THEN Done(Failure(stop_type.exc), <<entry>>)
        ELSE Done(StrategyResult(TRUE, OrderId(1, sends[1]),
                                 IF in_extended_hours THEN PyNone ELSE OrderId(2, sends[2]),
                                 IF Truthy(a.target_price)
                                 THEN OrderId(Len(stops) + 2, sends[3]) ELSE PyNone,
                                 "position opened", details),
                  <<entry>> \o stops \o targets)

\* buy_with_risk_stop and sell_with_risk_stop; env is what the clock, the
\* quote lookup, the buying-power lookup and the order manager answer
risk_stop(long, a, env) ==
    LET session == get_current_session(env.time)
        in_extended_hours == session \in {"premarket", "afterhours"}
        actual_entry == ActualEntry(a.entry_type, env.quote, a.entry_price)
        entry_with_slippage == IF long THEN actual_entry.int + a.slippage
                               ELSE actual_entry.int - a.slippage
        position_size == calculate_position_size(entry_with_slippage, a.stop_price,
                                                 a.risk_amount, a.slippage, 1, PyNone)
    IN  IF ~validate_symbol(a.symbol) THEN Done(Failure("Invalid symbol"), <<>>)
        ELSE IF in_extended_hours /\ ~a.allow_extended_hours
        THEN Done(Failure("Cannot execute strategy in extended hours"), <<>>)
        ELSE IF IsNone(env.quote) THEN Done(Failure("Could not get quote"), <<>>)
        ELSE IF IsNone(actual_entry) THEN Done(Failure("Invalid entry_type"), <<>>)
        ELSE IF IsExc(actual_entry) THEN Done(Failure(actual_entry.exc), <<>>)
        ELSE IF ~buying_power_ok(a.validate_buying_power, env.bp, actual_entry.int,
                                 position_size.shares)
        THEN Done(Failure("Insufficient buying power"), <<>>)
        ELSE place_orders(long, a, session, actual_entry.int, position_size.shares, env.sends)

\* close_position; quantity is that of the position held, 0 for none, and
\* percentage a whole number
close_position(symbol, exit_type, limit_price, percentage, quantity, quote, answer) ==
    LET shares_to_close == (Abs(quantity) * percentage) \div 100
        side == IF quantity > 0 THEN OrderSide.SELL ELSE OrderSide.COVER
        cancel == [call |-> "cancel_all_orders", symbol |-> symbol]
        price == ActualEntry(exit_type, quote, 0)
        order == SendOrder(symbol, side, shares_to_close,
                           IF ToLower(exit_type) = "market" THEN OrderType.MARKET
                           ELSE OrderType.LIMIT,
                           IF ToLower(exit_type) = "market" THEN PyNone
                           ELSE IF ToLower(exit_type) = "limit" THEN limit_price
                           ELSE price,
                           PyNone, answer)
        closed == IF answer = "ok"
                  THEN StrategyResult(TRUE, OrderId(1, answer), PyNone, PyNone, "Closing",
                                      [shares_closed |-> shares_to_close,
                                       total_shares |-> Abs(quantity),
                                       percentage |-> percentage, side |-> side])
                  ELSE Failure("Failed to place exit order")
    IN  IF quantity = 0 THEN Done(Failure("No open position"), <<>>)
        ELSE IF shares_to_close = 0 THEN Done(Failure("Percentage too small"), <<>>)
        ELSE IF ToLower(exit_type) = "market" THEN Done(closed, <<cancel, order>>)
        ELSE IF ToLower(exit_type) = "limit"
        THEN (IF IsNone(limit_price) THEN Done(Failure("limit_price required"), <<cancel>>)
              ELSE Done(closed, <<cancel, order>>))
        ELSE IF IsNone(quote) THEN Done(Failure("Could not get quote"), <<cancel>>)
        ELSE IF ToLower(exit_type) \notin {"mid", "bid", "ask"}
        THEN Done(Failure("Invalid exit_type"), <<cancel>>)
        ELSE IF IsExc(price) THEN Done(Failure(price.exc), <<cancel>>)
        ELSE Done(closed, <<cancel, order>>)

\* the send_order requests of scale_out's loop over the targets from the
\* k-th on; a percentage is counted in tenths of a percent
RECURSIVE scale_out_orders(_, _, _, _, _, _)
scale_out_orders(symbol, side, total_shares, targets, answers, k) ==
    IF k > Len(targets) THEN <<>>
    ELSE LET shares == (total_shares * targets[k].percentage) \div 1000
             order == SendOrder(symbol, side, shares, OrderType.LIMIT,
                                PyInt(targets[k].price), PyNone, answers[k])
         IN  (IF shares > 0 THEN <<order>> ELSE <<>>)
                 \o scale_out_orders(symbol, side, total_shares, targets, answers, k + 1)

\* scale_out; quantity is that of the position held, 0 for none
scale_out(symbol, targets, cancel_stops, quantity, answers) ==
    LET side == IF quantity > 0 THEN OrderSide.SELL ELSE OrderSide.COVER
        cancels == IF cancel_stops THEN <<[call |-> "cancel_all_orders", symbol |-> symbol]>>
                   ELSE <<>>
        sent == scale_out_orders(symbol, side, Abs(quantity), targets, answers, 1)
        order_ids == [i \in {j \in 1..Len(sent) : sent[j].answer = "ok"} |->
                         OrderId(i, sent[i].answer)]
    IN  IF quantity = 0 THEN Done(Failure("No open position"), <<>>)
        ELSE IF DOMAIN order_ids = {}
        THEN Done(Failure("Failed to place any scale-out orders"), cancels \o sent)
        ELSE Done(StrategyResult(TRUE, PyNone, PyNone, PyNone, "Placed",
                                 [order_ids |-> order_ids, targets |-> targets]),
                  cancels \o sent)

\* a strategy call, from rest
Strategy(fn, args, env, done) ==
    /\ rcall = NoCall
    /\ rcall' = [fn |-> fn, args |-> args, env |-> env, result |-> done.result]
    /\ orders' = done.orders
    /\ UNCHANGED <<parserVars, cacheVars, subVars, coreVars, appVars, locateVars>>

BuyWithRiskStop(a, env) ==
    \E done \in {risk_stop(TRUE, a, env)} : Strategy("buy_with_risk_stop", a, env, done)

SellWithRiskStop(a, env) ==
    \E done \in {risk_stop(FALSE, a, env)} : Strategy("sell_with_risk_stop", a, env, done)

ClosePosition(symbol, exit_type, limit_price, percentage, quantity, quote, answer) ==
    \E done \in {close_position(symbol, exit_type, limit_price, percentage, quantity, quote,
                                answer)} :
        Strategy("close_position",
                 [symbol |-> symbol, exit_type |-> exit_type, limit_price |-> limit_price,
                  percentage |-> percentage],
                 [quantity |-> quantity, quote |-> quote, answer |-> answer], done)

ScaleOut(symbol, targets, cancel_stops, quantity, answers) ==
    \E done \in {scale_out(symbol, targets, cancel_stops, quantity, answers)} :
        Strategy("scale_out",
                 [symbol |-> symbol, targets |-> targets, cancel_stops |-> cancel_stops],
                 [quantity |-> quantity, answers |-> answers], done)

-----------------------------------------------------------------------------
(* retry_on_error.  The frame of the wrapper is kept in rcall: attempt is  *)
(* the loop variable, calls lists what each invocation of the wrapped      *)
(* function did, slept lists the waits.                                    *)

\* the exception the wrapped function raises at its n-th invocation
Failed(n) == [exc |-> "Exception", at |-> n]

\* an exception that is not an Exception, such as a cancellation
Cancelled == [exc |-> "CancelledError"]

\* the wrapper is called
RetryCall(max_attempts, delay) ==
    /\ rcall = NoCall
    /\ rcall' = [fn |-> "retry_on_error", max_attempts |-> max_attempts, delay |-> delay,
                 pc |-> "loop", attempt |-> 0, calls |-> <<>>, slept |-> <<>>,
                 last_exception |-> PyNone, result |-> PyNone]
    /\ UNCHANGED <<orders, parserVars, cacheVars, subVars, coreVars, appVars, locateVars>>

\* the frame after the wrapped function raised e in the attempt at hand
after_exception_sleep_always(f, e) ==
    [f EXCEPT !.last_exception = e, !.calls = Append(@, "raised"), !.pc = "sleeping",
              !.slept = Append(@, f.delay * (f.attempt + 1))]

after_exception(f, e) ==
    IF f.attempt < f.max_attempts - 1
    THEN [f EXCEPT !.last_exception = e, !.calls = Append(@, "raised"), !.pc = "sleeping",
                   !.slept = Append(@, f.delay * (f.attempt + 1))]
    ELSE [f EXCEPT !.last_exception = e, !.calls = Append(@, "raised"),
                   !.attempt = @ + 1]

\* one pass of the loop: the wrapped function is awaited and returns,
\* raises an Exception or raises something else
RetryAttempt(outcome) ==
    /\ rcall.fn = "retry_on_error"
    /\ rcall.pc = "loop"
    /\ rcall.attempt < rcall.max_attempts
    /\ rcall' = CASE outcome = "returns" ->
                        [rcall EXCEPT !.calls = Append(@, "returned"), !.pc = "returned",
                                      !.result = PyStr("value")]
                  [] outcome = "raises" ->
                        after_exception(rcall, Failed(Len(rcall.calls) + 1))
                  [] OTHER ->
                        [rcall EXCEPT !.calls = Append(@, "cancelled"), !.pc = "raised",
                                      !.result = Cancelled]
    /\ UNCHANGED <<orders, parserVars, cacheVars, subVars, coreVars, appVars, locateVars>>

\* asyncio.sleep is over, or is cancelled
RetryWake(cancelled) ==
    /\ rcall.fn = "retry_on_error"
    /\ rcall.pc = "sleeping"
    /\ rcall' = IF cancelled THEN [rcall EXCEPT !.pc = "raised", !.result = Cancelled]
                ELSE [rcall EXCEPT !.pc = "loop", !.attempt = @ + 1]
    /\ UNCHANGED <<orders, parserVars, cacheVars, subVars, coreVars, appVars, locateVars>>

\* the loop is over: raise last_exception, which is None when the loop had
\* no pass
RetryExhausted ==
    /\ rcall.fn = "retry_on_error"
    /\ rcall.pc = "loop"
    /\ rcall.attempt >= rcall.max_attempts
    /\ rcall' = [rcall EXCEPT !.pc = "raised",
                              !.result = IF IsNone(rcall.last_exception) THEN Exc("TypeError")
                                         ELSE rcall.last_exception]
    /\ UNCHANGED <<orders, parserVars, cacheVars, subVars, coreVars, appVars, locateVars>>

-----------------------------------------------------------------------------
(* The lines the parser is fed: every well-formed line of each kind, cut   *)
(* to each length, with up to MaxBadTokens fields replaced by a stray      *)
(* token, bare or padded with blanks; and lines of no known kind.          *)

Templates == {
    <<"%ORDER", "1001", "AAPL", "B", "100", "150.25", "LIMIT", "Accepted", "40",
      "150.20", "60", "20240102", "09:30:00">>,
    <<"%OrderAct", "1001", "CANCEL", "OK", "user", "request">>,
    <<"%POS", "AAPL", "200", "150.00", "151.00", "200.00", "0.667">>,
    <<"%BP", "25000.50", "100000", "50000", "12500.25">>,
    <<"%SHORTINFO", "GME", "yes", "0.05", "5000">>,
    <<"%LOCATEINFO", "GME", "YES", "400", "0.006", "L77">>,
    <<"%SLRET", "GME", "400", "0.006", "Yes", "ALLROUTE">>,
    <<"%SLOrder", "L77", "GME", "Accepted", "filled", "ok">>,
    <<"%IORDER", "1002", "msft", "SS", "10", "300", "MKT", "Executed", "10", "300.5", "0">>,
    <<"%IPOS", "msft", "-10", "300.5", "299">>,
    <<"%ITRADE", "T1", "AAPL", "B", "100", "150.25", "ARCA", "20240102093000", "1001">>,
    <<"$Quote", "AAPL", "150.20", "150.30", "150.25", "120000", "3", "5",
      "2024-01-02", "09:30:00">>,
    <<"$Lv2", "aapl", "bid", "150.20", "300", "ARCA", "01/02/2024", "09:30:00">>,
    <<"$T&S", "AAPL", "150.25", "100", "20240102093000", "R">>,
    <<"$Chart", "AAPL", "MINUTE", "150", "151", "149.5", "150.5", "9000", "20240102093000">>,
    <<"$Bar", "AAPL", "DAY", "150", "151", "149.5", "150.5", "9000", "20240231093000">>,
    <<"$LDLU", "AAPL", "140.10", "160.90">>,
    <<"$SLAvailQueryRet", "ACCT1", "GME", "400", "0.006">> }

StrayTokens == {"abc", "1.5", "sNaN", "-7"}

OtherLines ==
    {"", "   ", "%", "$", "%FOO a b", "%ORDERS 1 AAPL", "$Quotes AAPL 1 2", "$BAR x",
     "ERROR bad symbol", "ERROR", "ERRORS x", "WARNING  low margin ", "WARNINGS",
     "INFO connected", "INFOx y", "hello world", "Quote AAPL 1 2", "error lower",
     " # %ORDER 1 AAPL"}

Replace(toks, P, b) == [i \in 1..Len(toks) |-> IF i \in P THEN b ELSE toks[i]]

Variants(t) ==
    {Join(" ", Replace(SubSeq(t, 1, k), P, b)) :
        <<k, P, b>> \in {x \in (1..Len(t)) \X (SUBSET (2..Len(t))) \X StrayTokens :
                            /\ Cardinality(x[2]) <= MaxBadTokens
                            /\ \A i \in x[2] : i <= x[1]}}

WellFormed == {Join(" ", t) : t \in Templates}

Lines ==
    UNION {Variants(t) : t \in Templates}
        \cup {"  " \o l \o " " : l \in WellFormed}
        \cup OtherLines

-----------------------------------------------------------------------------
(* The parser on its own: the read loop hands one line at a time to        *)
(* parse_message and takes the record back.                                *)

NoResult == [idle |-> TRUE]

ParserInit ==
    /\ line = ""
    /\ parsed = NoResult
    /\ MarketInit

Parse ==
    /\ parsed = NoResult
    /\ \E l \in Lines :
        /\ line' = l
        /\ parsed' = parse_message(l)
    /\ UNCHANGED <<stratVars, cacheVars, subVars, coreVars, appVars, locateVars>>

NextLine ==
    /\ parsed # NoResult
    /\ line' = ""
    /\ parsed' = NoResult
    /\ UNCHANGED <<stratVars, cacheVars, subVars, coreVars, appVars, locateVars>>

ParserNext == Parse \/ NextLine

SpecParser == ParserInit /\ [][ParserNext]_vars

-----------------------------------------------------------------------------
(* Properties of the parser.                                               *)

Tokens == Split(line)
FirstToken == IF Tokens = <<>> THEN "" ELSE Tokens[1]
Fields == ListFrom(Tokens, 1)
HasError == "error" \in DOMAIN parsed

\* the type tag each known first token stands for
KindOf(tok) ==
    CASE tok = "%ORDER" -> "ORDER"
      [] tok = "%OrderAct" -> "ORDER_ACTION"
      [] tok = "%POS" -> "POSITION"
      [] tok = "%BP" -> "BUYING_POWER"
      [] tok = "%SHORTINFO" -> "SHORT_INFO"
      [] tok = "%LOCATEINFO" -> "LOCATE_INFO"
      [] tok = "%SLRET" -> "LOCATE_RETURN"
      [] tok = "%SLOrder" -> "LOCATE_ORDER"
      [] tok = "%IORDER" -> "WATCH_ORDER"
      [] tok = "%IPOS" -> "WATCH_POSITION"
      [] tok = "%ITRADE" -> "WATCH_TRADE"
      [] tok = "$Quote" -> "QUOTE"
      [] tok = "$Lv2" -> "LEVEL2"
      [] tok = "$T&S" -> "TIME_SALES"
      [] tok \in {"$Chart", "$Bar"} -> "CHART"
      [] tok = "$LDLU" -> "LIMIT_DOWN_UP"
      [] tok = "$SLAvailQueryRet" -> "LOCATE_AVAIL"

\* per kind: the number of fields of a full line, and the 0-based positions
\* of its integer and of its decimal fields
FieldCount(k) ==
    CASE k \in {"ORDER", "WATCH_ORDER"} -> 12
      [] k = "ORDER_ACTION" -> 4
      [] k \in {"POSITION", "WATCH_POSITION"} -> 6
      [] k = "BUYING_POWER" -> 4
      [] k = "SHORT_INFO" -> 4
      [] k = "LOCATE_INFO" -> 5
      [] k = "LOCATE_RETURN" -> 5
      [] k = "LOCATE_ORDER" -> 4
      [] k = "WATCH_TRADE" -> 8
      [] k = "QUOTE" -> 9
      [] k = "LEVEL2" -> 7
      [] k = "TIME_SALES" -> 5
      [] k = "CHART" -> 8
      [] k = "LIMIT_DOWN_UP" -> 3
      [] k = "LOCATE_AVAIL" -> 4

IntFields(k) ==
    CASE k \in {"ORDER", "WATCH_ORDER"} -> {3, 7, 9}
      [] k \in {"POSITION", "WATCH_POSITION"} -> {1}
      [] k = "SHORT_INFO" -> {3}
      [] k = "LOCATE_INFO" -> {2}
      [] k = "LOCATE_RETURN" -> {1}
      [] k = "WATCH_TRADE" -> {3}
      [] k = "QUOTE" -> {4, 5, 6}
      [] k = "LEVEL2" -> {3}
      [] k = "TIME_SALES" -> {2}
      [] k = "CHART" -> {6}
      [] k = "LOCATE_AVAIL" -> {2}
      [] OTHER -> {}

DecFields(k) ==
    CASE k \in {"ORDER", "WATCH_ORDER"} -> {4, 8}
      [] k \in {"POSITION", "WATCH_POSITION"} -> {2, 3, 4, 5}
      [] k = "BUYING_POWER" -> {0, 1, 2, 3}
      [] k = "SHORT_INFO" -> {2}
      [] k = "LOCATE_INFO" -> {3}
      [] k = "LOCATE_RETURN" -> {2}
      [] k = "WATCH_TRADE" -> {4}
      [] k = "QUOTE" -> {1, 2, 3}
      [] k = "LEVEL2" -> {2}
      [] k = "TIME_SALES" -> {1}
      [] k = "CHART" -> {2, 3, 4, 5}
      [] k = "LIMIT_DOWN_UP" -> {1, 2}
      [] k = "LOCATE_AVAIL" -> {3}
      [] OTHER -> {}

KnownKind == FirstToken \in ControlPrefixes \cup DataPrefixes
Kind == KindOf(FirstToken)

Truncated == Len(Fields) < FieldCount(Kind)
BadIntField == \E i \in IntFields(Kind) : Has(Fields, i) /\ IsExc(py_int(At(Fields, i)))
BadDecField == \E i \in DecFields(Kind) : Has(Fields, i) /\ IsExc(py_Decimal(At(Fields, i)))
Malformed == Truncated \/ BadDecField

\* a position line whose market value multiplies by a signalling NaN
SignallingProduct ==
    /\ Kind \in {"POSITION", "WATCH_POSITION"}
    /\ Has(Fields, 3)
    /\ ~IsExc(py_int(At(Fields, 1))) /\ py_int(At(Fields, 1)).int # 0
    /\ py_Decimal(At(Fields, 3)) = PyDec("snan", SignOf(At(Fields, 3)), 0)

(* C1: for every line, parse_message returns one record that carries a    *)
(* type tag; no exception leaves the parser.                               *)
C1_ParseNeverRaises ==
    parsed # NoResult => ~IsExc(parsed) /\ "type" \in DOMAIN parsed

\* an extractor hit an exception on the line and still returned a record
C1_Witness == parsed # NoResult /\ HasError /\ "type" \in DOMAIN parsed

\* int(token) of a present integer field, with 0 standing in for a failure
IntAtLenient(parts, i) ==
    IF Has(parts, i) /\ ~IsExc(py_int(At(parts, i))) THEN py_int(At(parts, i)) ELSE PyInt(0)

OrderRecordLenient(parts) ==
    [type |-> "ORDER", order_id |-> StrAt(parts, 0), symbol |-> StrAt(parts, 1),
     side |-> StrAt(parts, 2), quantity |-> IntAtLenient(parts, 3),
     price |-> DecAt(parts, 4), order_type |-> StrAt(parts, 5),
     status |-> StrAt(parts, 6), filled_qty |-> IntAtLenient(parts, 7),
     avg_price |-> DecAt(parts, 8), remaining_qty |-> IntAtLenient(parts, 9),
     timestamp |-> TsPair(parts, 10, 11)]

Level2RecordLenient(parts) ==
    [type |-> "LEVEL2", symbol |-> StrAt(parts, 0), side |-> StrAt(parts, 1),
     price |-> DecAt(parts, 2), size |-> IntAtLenient(parts, 3),
     mmid |-> StrAt(parts, 4), timestamp |-> TsPair(parts, 5, 6)]

(* C2: when a numeric field of an %ORDER or $Lv2 line fails to parse, the  *)
(* record is still returned with that field at its default and every other *)
(* field populated from its token.                                         *)
C2_BadNumericFieldKeepsRecord ==
    /\ (parsed # NoResult /\ FirstToken = "%ORDER") => parsed = OrderRecordLenient(Fields)
    /\ (parsed # NoResult /\ FirstToken = "$Lv2") => parsed = Level2RecordLenient(Fields)

StartsWithAny(s, ps) == \E q \in ps : StartsWith(s, q)

-----------------------------------------------------------------------------
(* The Level2 book under a stream of depth events.                         *)

BookLines ==
    {"$Lv2 AAPL BID 150.20 300 ARCA",
     "$Lv2 aapl bid 150.10 500 ARCA",
     "$Lv2 AAPL BID 150.30 200 NSDQ",
     "$Lv2 AAPL BID 0 0 ARCA",
     "$Lv2 AAPL BID 150.30 0 NSDQ",
     "$Lv2 AAPL ASK 150.40 100 ARCA",
     "$Lv2 MSFT BID 300.00 100 ARCA",
     "$Lv2 AAPL BID abc 100 EDGX",
     "$Lv2 AAPL BID 150.20",
     "$Lv2 AAPL",
     "$Lv2 AAPL BID 150.20 x ARCA",
     "$Lv2 AAPL MID 150.20 100 ARCA"}

IdleParser == line = "" /\ parsed = NoResult

BookInit == IdleParser /\ MarketInit

BookNext == DeliverFrom(BookLines, MaxEvents)

SpecBook == BookInit /\ [][BookNext]_vars

-----------------------------------------------------------------------------
(* Subscriptions: events of every level arrive while symbols are           *)
(* subscribed and unsubscribed.                                            *)

SubsLines ==
    {"$Lv2 AAPL BID 150.20 300 ARCA",
     "$Lv2 MSFT ASK 300.10 100 NSDQ",
     "$T&S AAPL 150.25 100 20240102093000 R",
     "$Quote AAPL 150.20 150.30 150.25 120000 3 5"}

SubsSymbols == {"aapl", "MSFT"}

BadSymbols == {"BRK.B"}

SubsInit == IdleParser /\ MarketInit

SubsNext ==
    \/ DeliverFrom(SubsLines, MaxEvents)
    \/ \E s \in SubsSymbols \cup BadSymbols, level \in Levels, ok \in BOOLEAN :
            Subscribe(s, level, ok)
    \/ \E s \in SubsSymbols \cup BadSymbols, level \in Levels, ok \in BOOLEAN :
            Unsubscribe(s, level, ok)

SpecSubs == SubsInit /\ [][SubsNext]_vars

-----------------------------------------------------------------------------
(* One-shot quote queries racing with the quote stream and the clock.      *)

QuoteLines ==
    {"$Quote AAPL 150.20 150.30 150.25 120000 3 5",
     "$Quote msft 300.10 300.20",
     "$Quote"}

QuerySymbols == {"aapl", "MSFT"}

QuoteInit == IdleParser /\ MarketInit

QuoteNext ==
    \/ DeliverFrom(QuoteLines, MaxReplies)
    \/ \E t \in Tasks, s \in QuerySymbols, ok \in BOOLEAN : GetQuoteCall(t, s, ok)
    \/ \E t \in Tasks : GetQuoteResume(t)
    \/ \E t \in Tasks : Timeout(t)
    \/ Tick

SpecQuote == QuoteInit /\ [][QuoteNext]_vars

-----------------------------------------------------------------------------
(* Properties of the Level2 book.                                          *)

\* the record of the last dispatched line, once its handler took it
Handled(kind) ==
    /\ last.op = "deliver"
    /\ last.path = "handler"
    /\ last.message.type = kind

\* the entries of one side of a symbol's book
SideOf(l2, symbol, side) == BookOf(l2, symbol)[side]

Makers(entries) == {entries[i].mmid : i \in 1..Len(entries)}

OfMaker(entries, mmid) == SelectSeq(entries, LAMBDA e : e.mmid = mmid)

NotOfMaker(entries, mmid) == SelectSeq(entries, LAMBDA e : e.mmid # mmid)

OtherSide(side) == IF side = "BID" THEN "ASK" ELSE "BID"

\* the last dispatched line was a depth event the handler applied
DepthEvent ==
    /\ Handled("LEVEL2")
    /\ ~Falsy(Get(last.message, "symbol"))
    /\ IsStr(Get(last.message, "side"))
    /\ ToUpper(Get(last.message, "side").str) \in {"BID", "ASK"}

OneEntryPerMaker ==
    \A symbol \in DOMAIN level2_data, side \in {"BID", "ASK"} :
        \A i, j \in 1..Len(level2_data[symbol][side]) :
            level2_data[symbol][side][i].mmid = level2_data[symbol][side][j].mmid
                => i = j

\* what one depth event does to the book
DepthEventStep ==
    (events' = events + 1 /\ DepthEvent') =>
        LET m == last'.message
            symbol == ToUpper(Get(m, "symbol").str)
            side == ToUpper(Get(m, "side").str)
            mmid == GetDefault(m, "mmid", PyStr(""))
            size == GetDefault(m, "size", PyInt(0))
            old == SideOf(level2_data, symbol, side)
            new == SideOf(level2_data', symbol, side)
        IN  /\ size.int = 0 => mmid \notin Makers(new)
            /\ size.int > 0 =>
                    /\ Len(OfMaker(new, mmid)) = 1
                    /\ OfMaker(new, mmid)[1].size = size
                    /\ OfMaker(new, mmid)[1].price =
                            GetDefault(m, "price", PyDec("fin", 0, 0))
            /\ NotOfMaker(new, mmid) = NotOfMaker(old, mmid)
            /\ SideOf(level2_data', symbol, OtherSide(side)) =
                    SideOf(level2_data, symbol, OtherSide(side))
            /\ \A other \in (DOMAIN level2_data \cup DOMAIN level2_data') \ {symbol} :
                    /\ other \in DOMAIN level2_data
                    /\ other \in DOMAIN level2_data'
                    /\ level2_data'[other] = level2_data[other]

\* C5: after any sequence of Level2 events every side of every symbol's book
\* holds at most one entry per market-maker id; an event of size 0 removes
\* the maker's entry, an event of positive size leaves exactly the new entry
\* for the maker, and the entries of other makers (in their order), the
\* other side and the books of other symbols stay as they were.
C5_OneEntryPerMaker == []OneEntryPerMaker /\ [][DepthEventStep]_vars

\* a size-0 event has been applied to a side that still holds another
\* maker's entry, after three depth events
C5_Witness ==
    /\ DepthEvent
    /\ events = 3
    /\ GetDefault(last.message, "size", PyInt(0)).int = 0
    /\ LET entries == SideOf(level2_data, ToUpper(Get(last.message, "symbol").str),
                             ToUpper(Get(last.message, "side").str))
       IN  /\ Len(entries) = 1
           /\ Get(last.message, "mmid") \notin Makers(entries)

-----------------------------------------------------------------------------
(* Properties of the one-shot queries and of the dispatch rule.            *)

\* the symbol a record carries, in upper case ("" when it carries none)
SymbolOf(message) ==
    IF Falsy(Get(message, "symbol")) THEN "" ELSE ToUpper(Get(message, "symbol").str)

\* a call that sent its query and was handed a reply
Replied(t) == task[t].sends = 1 /\ task[t].reply_no > 0

\* the record that arrived as inbound line number n and resolved a query
ReplyAt(n) == task[CHOOSE t \in Tasks : task[t].reply_no = n].response

\* queries a then b were both outstanding before either reply arrived, and
\* the earlier of their two replies carries a's symbol, the later b's
RepliesInIssueOrder(a, b) ==
    LET first == IF task[a].reply_no < task[b].reply_no
                 THEN task[a].reply_no ELSE task[b].reply_no
        second == IF task[a].reply_no < task[b].reply_no
                  THEN task[b].reply_no ELSE task[a].reply_no
    IN  /\ a < b
        /\ Replied(a) /\ Replied(b)
        /\ task[a].symbol # task[b].symbol
        /\ task[a].issued_at < first /\ task[b].issued_at < first
        /\ SymbolOf(ReplyAt(first)) = task[a].symbol
        /\ SymbolOf(ReplyAt(second)) = task[b].symbol

\* the call holds the reply for the symbol it asked for
OwnReply(t) ==
    /\ SymbolOf(task[t].response) = task[t].symbol
    /\ task[t].pc = "done" =>
            /\ task[t].outcome = "reply"
            /\ task[t].result.symbol = task[t].symbol

\* C6: two get_quote queries for different symbols issued in order A then B
\* and both outstanding, whose replies arrive in order A then B, each get
\* the reply for their own symbol.
C6_FifoCorrelation ==
    \A a, b \in Tasks : RepliesInIssueOrder(a, b) => OwnReply(a) /\ OwnReply(b)

\* both queries were answered in issue order and both calls have returned
C6_Witness ==
    \E a, b \in Tasks :
        /\ RepliesInIssueOrder(a, b)
        /\ task[a].pc = "done" /\ task[b].pc = "done"
        /\ task[a].result.symbol = task[a].symbol
        /\ task[b].result.symbol = task[b].symbol

\* what one inbound line does: a pending request of its kind takes it and
\* nothing reaches the handlers, or no request changes and the handler runs
OneConsumerStep ==
    (events' = events + 1) =>
        LET m == last'.message
        IN  IF \E i \in 1..Len(pending) : pending[i].kind = m.type
            THEN LET i == CHOOSE i \in 1..Len(pending) :
                            /\ pending[i].kind = m.type
                            /\ \A j \in 1..(i - 1) : pending[j].kind # m.type
                     t == pending[i].task
                 IN  /\ last'.path = "pending" /\ last'.to = t
                     /\ task'[t].pc = "resumed" /\ task'[t].response = m
                     /\ \A u \in Tasks \ {t} : task'[u] = task[u]
                     /\ pending' = RemoveAt(pending, i)
                     /\ cacheVars' = cacheVars
                     /\ ~last'.triggered /\ ~last'.raised
            ELSE /\ pending' = pending /\ task' = task
                 /\ m.type \in HandledKinds => last'.path = "handler"
                 /\ (m.type = "QUOTE" /\ SymbolOf(m) # "") =>
                        /\ last'.triggered
                        /\ SymbolOf(m) \in DOMAIN quotes'
                        /\ quotes'[SymbolOf(m)].symbol = SymbolOf(m)

\* C7: an inbound event is consumed by at most one path: with a pending
\* request of its kind it resolves the oldest such request and is not
\* forwarded to the handlers of the kind; otherwise it is forwarded to them.
C7_OneConsumer == [][OneConsumerStep]_vars

\* a reply carrying a symbol went to a waiting call and left the quote
\* cache without that symbol
C7_Witness ==
    /\ last.op = "deliver" /\ last.path = "pending"
    /\ SymbolOf(last.message) # ""
    /\ SymbolOf(last.message) \notin DOMAIN quotes
    /\ task[last.to].pc = "resumed"

\* no pending entry belongs to a call that is no longer waiting
NoStaleWaiter == \A i \in 1..Len(pending) : task[pending[i].task].pc = "waiting"

\* a wait expires no earlier than the timeout and takes its entry with it
TimeoutStep ==
    \A t \in Tasks :
        (task'[t].outcome = "timeout" /\ task[t].outcome # "timeout") =>
            /\ task[t].pc = "waiting"
            /\ \E i \in 1..Len(pending) :
                    /\ pending[i].task = t
                    /\ now - pending[i].created_at >= DEFAULT_TIMEOUT
            /\ task'[t].waited >= DEFAULT_TIMEOUT
            /\ IsNone(task'[t].result)
            /\ pending' = SelectSeq(pending, LAMBDA p : p.task # t)

\* a later event never reaches a call whose wait expired; with no other
\* request pending it goes to the handlers
AfterTimeoutStep ==
    (events' = events + 1) =>
        /\ \A t \in Tasks : task[t].outcome = "timeout" => task'[t] = task[t]
        /\ (pending = <<>> /\ last'.message.type \in HandledKinds) =>
                last'.path = "handler"

\* C8: a correlated wait that gets no matching reply fails with a timeout
\* no earlier than the timeout and its pending entry is removed, so a later
\* event of the same kind goes to the handlers and not to the expired wait.
C8_TimeoutRemovesPending == []NoStaleWaiter /\ [][TimeoutStep /\ AfterTimeoutStep]_vars

\* a wait expired after the timeout, and the quote that arrived afterwards
\* went to the handler and into the cache
C8_Witness ==
    /\ \E t \in Tasks : task[t].outcome = "timeout" /\ task[t].waited >= DEFAULT_TIMEOUT
    /\ Handled("QUOTE")
    /\ last.triggered
    /\ SymbolOf(last.message) \in DOMAIN quotes
    /\ pending = <<>>

\* what get_quote does when called and when its reply is in
GetQuoteStep ==
    \A t \in Tasks :
        /\ (task[t].pc = "idle" /\ task'[t].pc # "idle") =>
                LET symbol == task'[t].symbol
                IN  IF symbol \in DOMAIN quotes
                    THEN /\ task'[t].pc = "done"
                         /\ task'[t].result = quotes[symbol]
                         /\ task'[t].sends = 0
                         /\ last'.sent = <<>>
                         /\ pending' = pending
                         /\ quotes' = quotes
                    ELSE /\ task'[t].sends = 1
                         /\ last'.sent = <<"GETQUOTE " \o symbol>>
                         /\ task'[t].pc = "waiting" =>
                                /\ Len(pending') = Len(pending) + 1
                                /\ pending'[Len(pending')].task = t
                                /\ pending'[Len(pending')].kind = "QUOTE"
        /\ (task[t].pc = "resumed" /\ task'[t].pc = "done") =>
                LET response == task[t].response
                IN  /\ last'.sent = <<>>
                    /\ (response.type = "QUOTE" /\ SymbolOf(response) # "") =>
                            /\ task[t].symbol \in DOMAIN quotes'
                            /\ quotes'[task[t].symbol] = task'[t].result
                            /\ task'[t].result.symbol = SymbolOf(response)
                            /\ task'[t].result.bid =
                                    GetDefault(response, "bid", PyDec("fin", 0, 0))
        /\ task'[t].sends # task[t].sends => task[t].pc = "idle"

\* C9: get_quote returns the cached Quote and sends nothing when the symbol
\* is in the quote cache; otherwise it sends exactly one GETQUOTE query and,
\* on a QUOTE reply that yields a Quote, stores it in the cache under the
\* requested symbol and returns it.
C9_GetQuoteCacheThenQuery ==
    [](\A t \in Tasks : task[t].sends <= 1) /\ [][GetQuoteStep]_vars

\* one call was answered by a reply it stored, a later one from the cache
C9_Witness ==
    \E t, u \in Tasks :
        /\ task[t].outcome = "reply" /\ task[t].sends = 1
        /\ task[u].outcome = "cached" /\ task[u].sends = 0
        /\ task[u].symbol = task[t].symbol
        /\ task[u].result = task[t].result
        /\ quotes[task[t].symbol] = task[t].result

-----------------------------------------------------------------------------
(* Properties of unsubscribing.                                            *)

\* the step is an unsubscribe_quote call whose command was sent
Unsubscribed == calls' = calls + 1 /\ last'.op = "unsubscribe" /\ last'.ok

\* a dict without one key, the other keys as they were
Without(d, key) == [k \in DOMAIN d \ {key} |-> d[k]]

\* C10, as stated: unsubscribing a symbol removes its Level2 book and its
\* tape at once and keeps its last-known Quote.
C10_UnsubscribeEvictsBookAndTape ==
    [][Unsubscribed =>
            /\ last'.symbol \notin DOMAIN level2_data'
            /\ last'.symbol \notin DOMAIN time_sales'
            /\ quotes' = quotes]_vars

\* what an unsubscribe_quote call does to the caches, by level
UnsubscribeStep ==
    (calls' = calls + 1 /\ last'.op = "unsubscribe") =>
        /\ quotes' = quotes
        /\ chart_data' = chart_data
        /\ (last'.ok /\ last'.level = "Lv2") =>
                /\ level2_data' = Without(level2_data, last'.symbol)
                /\ time_sales' = time_sales
        /\ (last'.ok /\ last'.level = "T&S") =>
                /\ time_sales' = Without(time_sales, last'.symbol)
                /\ level2_data' = level2_data
        /\ (~last'.ok \/ last'.level = "Lv1") =>
                /\ level2_data' = level2_data
                /\ time_sales' = time_sales

\* a cached Quote is never dropped, whatever is subscribed or unsubscribed
QuoteRetainedStep ==
    \A symbol \in DOMAIN quotes :
        symbol \in DOMAIN quotes' /\ quotes'[symbol].symbol = symbol

\* C10, amended: unsubscribing a symbol at the Level2 level removes its
\* Level2 book, at the time-and-sales level its tape, and at the Level1
\* level (or when the command could not be sent) neither; no unsubscribe
\* removes the symbol's last-known Quote, which stays readable.
C10_UnsubscribeEvictsItsLevel == [][UnsubscribeStep /\ QuoteRetainedStep]_vars

\* a symbol with a quote and a tape was unsubscribed at the Level2 level:
\* its book is gone, its quote and tape are still cached
C10_Witness ==
    /\ last.op = "unsubscribe" /\ last.ok /\ last.level = "Lv2"
    /\ last.symbol \in DOMAIN quotes
    /\ last.symbol \in DOMAIN time_sales
    /\ last.symbol \notin DOMAIN level2_data
    /\ events = 3

-----------------------------------------------------------------------------
(* Reads of the caches, and callers changing what they were handed.        *)

ReadLines ==
    {"$Quote AAPL 150.20 150.30 150.25 120000 3 5",
     "$Lv2 AAPL BID 150.20 300 ARCA",
     "$Lv2 AAPL BID 150.30 200 NSDQ",
     "$T&S AAPL 150.25 100 20240102093000 R",
     "$Chart AAPL MINUTE 150.00 150.50 149.90 150.25 1000 20240102093000"}

ReadSymbols == {"aapl", "MSFT"}

ReadsInit == IdleParser /\ MarketInit

ReadsNext ==
    \/ DeliverFrom(ReadLines, MaxEvents)
    \/ \E s \in ReadSymbols : ReadQuote(s)
    \/ \E s \in ReadSymbols, side \in {"BID", "ASK"} : ReadLevel2Book(s, side)
    \/ \E s \in ReadSymbols, limit \in {0, 1, 100} : ReadTimeSales(s, limit)
    \/ \E s \in ReadSymbols \cup BadSymbols, ok \in BOOLEAN : GetChartData(s, "MINUTE", ok)
    \/ \E i \in 1..MaxEvents : CallerSetsAttribute(i)
    \/ CallerClearsList

SpecReads == ReadsInit /\ [][ReadsNext]_vars

\* the step is a caller changing a value a read accessor returned
CallerMutation == held.accessor # "none" /\ ~held.mutated /\ held'.mutated

\* C11: a caller mutating a value that get_quote, get_level2_book,
\* get_time_sales or get_chart_data returned never changes what the cache
\* holds.
C11_ReadsHandOutNoCacheReference == [][CallerMutation => cacheVars' = cacheVars]_vars

-----------------------------------------------------------------------------
(* Callbacks registered for the quote stream.                              *)

CallbackLines ==
    {"$Quote AAPL 150.20 150.30 150.25 120000 3 5",
     "$Quote",
     "$T&S AAPL 150.25 100 20240102093000 R"}

CallbacksInit == IdleParser /\ MarketInit

CallbacksNext ==
    \/ DeliverFrom(CallbackLines, MaxEvents)
    \/ \E c \in CallbackNames \ {"late"} : RegisterCallback("quote_update", c)
    \/ \E c \in {"plain", "raiser"} : UnregisterCallback("quote_update", c)
    \/ RegisterCallback("time_sales", "plain")

SpecCallbacks == CallbacksInit /\ [][CallbacksNext]_vars

\* the callbacks run that were in the list when the delivery began
RanOfRegistered(ran, registered) ==
    SelectSeq(ran, LAMBDA c : InList(registered, c))

\* C12: for every market-data event, every callback registered for the
\* event at the time of delivery is invoked exactly once, in registration
\* order, whatever the callbacks do when run.
C12_EveryCallbackOnceInOrder ==
    [][(events' = events + 1 /\ last'.triggered) =>
            RanOfRegistered(invoked', callbacks[EventOf(last'.message.type)])
                = callbacks[EventOf(last'.message.type)]]_vars

-----------------------------------------------------------------------------
(* The presentation order of the Level2 book.                              *)

\* no entry is followed by one that sorts before it
InPriceOrder(entries, reverse) ==
    \A i \in 1..(Len(entries) - 1) :
        IF reverse THEN ~DecLess(entries[i].price, entries[i + 1].price)
        ELSE ~DecLess(entries[i + 1].price, entries[i].price)

\* C13: in every cache state reached by Level2 events parsed from wire
\* lines, get_level2_book(symbol) returns without error the bids in
\* descending and the asks in ascending price order.
C13_BookViewSortedWithoutError ==
    \A symbol \in DOMAIN level2_data :
        /\ ~IsExc(get_level2_book(symbol))
        /\ InPriceOrder(get_level2_book(symbol).bids, TRUE)
        /\ InPriceOrder(get_level2_book(symbol).asks, FALSE)

-----------------------------------------------------------------------------
(* The time-and-sales tape under a long stream of prints.                  *)

\* the next print: its size is its arrival number; the first prints may
\* be for a second symbol
TapeLines ==
    {"$T&S AAPL 150.25 " \o py_str(events + 1) \o " 20240102093000 R"}
        \cup (IF events < 2
              THEN {"$T&S msft 300.10 " \o py_str(events + 1) \o " 20240102093000"}
              ELSE {})

TapeInit == IdleParser /\ MarketInit

TapeNext == DeliverFrom(TapeLines, MaxPrints)

SpecTape == TapeInit /\ [][TapeNext]_vars

TapeOf(tapes, symbol) == IF symbol \in DOMAIN tapes THEN tapes[symbol] ELSE <<>>

TapeBounded == \A symbol \in DOMAIN time_sales : Len(time_sales[symbol]) <= TapeMaxLen

\* one print goes to the end of its symbol's tape; a full tape loses its
\* oldest print and nothing else; the other tapes stay as they were
PrintStep ==
    (events' = events + 1 /\ Handled("TIME_SALES")' /\ SymbolOf(last'.message) # "") =>
        LET m == last'.message
            old == TapeOf(time_sales, SymbolOf(m))
            new == TapeOf(time_sales', SymbolOf(m))
            kept == IF Len(old) < TapeMaxLen THEN old ELSE Tail(old)
        IN  /\ Len(new) = Len(kept) + 1
            /\ SubSeq(new, 1, Len(kept)) = kept
            /\ new[Len(new)].symbol = SymbolOf(m)
            /\ new[Len(new)].price = m.price
            /\ new[Len(new)].size = m.size
            /\ \A other \in (DOMAIN time_sales \cup DOMAIN time_sales') \ {SymbolOf(m)} :
                    TapeOf(time_sales', other) = TapeOf(time_sales, other)

\* C14: each symbol's tape holds at most 1000 prints, and every print is
\* appended at the end while only the oldest print of a full tape is
\* evicted, so the tape is the most recent prints in arrival order.
C14_TapeBoundedOldestEvicted == []TapeBounded /\ [][PrintStep]_vars

\* a full tape has lost its first print and holds the latest 1000
C14_Witness ==
    /\ "AAPL" \in DOMAIN time_sales
    /\ Len(time_sales["AAPL"]) = TapeMaxLen
    /\ time_sales["AAPL"][TapeMaxLen].size.int = events
    /\ time_sales["AAPL"][1].size.int = events - TapeMaxLen + 1
    /\ events > TapeMaxLen

-----------------------------------------------------------------------------
(* Symbol validation.                                                      *)

\* C15: subscribe and unsubscribe, given a symbol that fails validation,
\* fail with the invalid-symbol error and send no command.
C15_InvalidSymbolRejectedBeforeSend ==
    [][(calls' = calls + 1 /\ last'.op \in {"subscribe", "unsubscribe"}
            /\ ~validate_symbol(last'.symbol)) =>
                (last'.raised = "DASInvalidSymbolError" /\ last'.sent = <<>>)]_vars

-----------------------------------------------------------------------------
(* Unsubscribing what is not subscribed.                                   *)

\* the symbols subscribed at a level
SubscribedAt(level) ==
    CASE level = "Lv1" -> quote_subs
      [] level = "Lv2" -> level2_subs
      [] level = "T&S" -> ts_subs

\* an unsubscribe of a symbol that is not subscribed raises nothing and
\* changes nothing but the symbol's book or tape
UnsubscribeAbsentStep ==
    (calls' = calls + 1 /\ last'.op = "unsubscribe"
            /\ last'.symbol \notin SubscribedAt(last'.level)) =>
        /\ last'.raised = ""
        /\ subVars' = subVars
        /\ quotes' = quotes /\ chart_data' = chart_data
        /\ level2_data' \in {level2_data, Without(level2_data, last'.symbol)}
        /\ time_sales' \in {time_sales, Without(time_sales, last'.symbol)}

\* the same unsubscribe made again right after it went through
UnsubscribeAgainStep ==
    (calls' = calls + 1 /\ last'.op = "unsubscribe" /\ last'.repeat) =>
        /\ last'.raised = ""
        /\ subVars' = subVars
        /\ cacheVars' = cacheVars

\* C16: unsubscribing twice a symbol that is not subscribed raises no
\* error, and the second call leaves the subscription sets and every cache
\* as the first call left them.
C16_UnsubscribeTwiceIsIdempotent == [][UnsubscribeAbsentStep /\ UnsubscribeAgainStep]_vars

\* the same unsubscribe has just been made a second time, with a quote
\* cached for the symbol
C16_Witness ==
    /\ last.op = "unsubscribe" /\ last.repeat /\ last.ok
    /\ calls = 2
    /\ last.symbol \notin SubscribedAt(last.level)
    /\ last.symbol \in DOMAIN quotes

-----------------------------------------------------------------------------
(* The locate calls of one caller, over every outcome of their awaits.     *)

LocateSymbols == {"AAPL", "BRK.B"}

\* the shares asked for, and the price passed in cents (0: none passed)
LocateShares == {100, 500}
LocatePrices == {0, 1000}

\* the answers to the one-shot quote query; "" is no answer
LocateQuoteLines ==
    {"", "$Quote AAPL 10.00 10.02 10.00 40000 3 5", "$Quote AAPL 10.00 10.02 10.00 25050 3 5",
     "$Quote AAPL 10.00 10.02"}

\* what inquire_locate_price does: it raises, times out, returns None, or
\* returns the pricing with a rate in mills per share
InquiryRaises == [kind |-> "raise"]
InquiryTimesOut == [kind |-> "timeout"]
InquiryReturnsNone == [kind |-> "none"]
InquiryReturns(info) == [kind |-> "info", info |-> info]
LocateRates == {0, 6, 20, 50}
InquiryResults ==
    {InquiryRaises, InquiryTimesOut, InquiryReturnsNone, InquiryReturns([available |-> TRUE])}
        \cup {InquiryReturns([available |-> TRUE, rate |-> r]) : r \in LocateRates}

\* the answers to the availability query
AvailResponses ==
    {PyNone, PyStr("$SLAvailQueryRet ACC1 AAPL 500"), PyStr("$SLAvailQueryRet ACC1 AAPL 100"),
     PyStr("$SLAvailQueryRet ACC1 AAPL")}

PurchaseOutcomes == {"raise", "falsy", "ok"}

OneCaller == {1}

LocateInit == IdleParser /\ MarketInit

LocateNext ==
    \/ \E c \in OneCaller, op \in {"analyze", "ensure"}, s \in LocateSymbols,
          n \in LocateShares, p \in LocatePrices :
            \E a \in IF op = "ensure" THEN BOOLEAN ELSE {FALSE} :
                LocateCall(c, op, s, n, p, a)
    \/ \E c \in OneCaller, ok \in BOOLEAN, reply \in LocateQuoteLines : FetchPrice(c, ok, reply)
    \/ \E c \in OneCaller : InquireStart(c)
    \/ \E c \in OneCaller, result \in InquiryResults : InquireEnd(c, result)
    \/ \E c \in OneCaller, raised \in BOOLEAN, response \in AvailResponses :
            CheckAvailable(c, raised, response)
    \/ \E c \in OneCaller, outcome \in PurchaseOutcomes : Purchase(c, outcome)
    \/ \E c \in OneCaller, raised \in BOOLEAN, response \in AvailResponses :
            VerifyPurchase(c, raised, response)
    \/ LocateTick

SpecLocate == LocateInit /\ [][LocateNext]_vars

-----------------------------------------------------------------------------
(* Concurrent locate calls at the inquiry guard.                           *)

RaceResults == {InquiryRaises, InquiryReturns([available |-> TRUE, rate |-> 0])}

RaceResponses == {PyStr("$SLAvailQueryRet ACC1 AAPL 500")}

RaceNext ==
    \/ \E c \in LocateCallers, op \in {"analyze", "ensure"} :
            LocateCall(c, op, "AAPL", 100, 1000, FALSE)
    \/ \E c \in LocateCallers : FetchPrice(c, TRUE, "")
    \/ \E c \in LocateCallers : InquireStart(c)
    \/ \E c \in LocateCallers, result \in RaceResults : InquireEnd(c, result)
    \/ \E c \in LocateCallers, response \in RaceResponses : CheckAvailable(c, FALSE, response)
    \/ LocateTick

SpecLocateRace == LocateInit /\ [][RaceNext]_vars

\* the callers whose price inquiry is outstanding
Inquiring == {c \in LocateCallers : ltask[c].pc = "inquiring"}

\* a caller's inquiry goes out
InquiryStarts(c) == ltask[c].pc # "inquiring" /\ ltask'[c].pc = "inquiring"

\* an inquiry goes out only when none is outstanding and the cooldown of
\* every completed one has elapsed
SerializedStep ==
    \A c \in LocateCallers :
        InquiryStarts(c) =>
            \A d \in LocateCallers :
                /\ ltask[d].pc # "inquiring"
                /\ ltask[d].answer # "" => now >= ltask[d].inquiry_done_at + InquiryCooldown

-----------------------------------------------------------------------------
(* ensure_locate: the order of its queries and the purchase.               *)

\* the positions in the wire log of a caller's commands of one kind
SentBy(c, command) ==
    {i \in DOMAIN wire : wire[i].caller = c /\ wire[i].command = command}

\* C18: ensure_locate queries the available located shares before any
\* locate-price inquiry, and sends no price inquiry when the available
\* shares already cover shares_needed.
C18_AvailabilityBeforeInquiry ==
    \A c \in LocateCallers :
        ltask[c].op = "ensure" =>
            /\ \A i \in SentBy(c, "SLPRICEINQUIRE") :
                    \E j \in SentBy(c, "SLAvailQuery") : j < i
            /\ "already_available" \in DOMAIN ltask[c].analysis =>
                    SentBy(c, "SLPRICEINQUIRE") = {}

\* C19: ensure_locate sends a locate purchase only when auto_purchase is
\* set, the analysis recommended APPROVE, and the available located shares
\* it found are fewer than shares_needed; a failed or rejected analysis, a
\* covered need or auto_purchase unset sends no purchase.
C19_PurchaseOnlyWhenApprovedAndShort ==
    \A c \in LocateCallers :
        SentBy(c, "SLNEWORDER") # {} =>
            /\ ltask[c].op = "ensure"
            /\ ltask[c].auto_purchase
            /\ ltask[c].analysis.success
            /\ ltask[c].analysis.recommendation = "APPROVE"
            /\ "already_available" \notin DOMAIN ltask[c].analysis
            /\ ltask[c].analysis.current_locates < ltask[c].shares
            /\ Cardinality(SentBy(c, "SLNEWORDER")) = 1

\* a purchase went out for a priced, approved locate with 100 of the 500
\* shares already located
C19_Witness ==
    /\ SentBy(1, "SLNEWORDER") # {}
    /\ ltask[1].shares = 500
    /\ ltask[1].analysis.current_locates = 100
    /\ ltask[1].analysis.locate_rate = 6
    /\ ltask[1].pc = "done"

-----------------------------------------------------------------------------
(* analyze_locate when something fails.                                    *)

\* the analysis ended on a failed inquiry
InquiryFailed(c) == ltask[c].answer \in {"raise", "timeout", "none"}

\* C20: whatever fails while a locate is analysed (the price inquiry
\* raising, timing out or returning nothing, the price or volume lookup
\* failing), analyze_locate returns REJECT with a non-empty reasons list and
\* raises nothing to its caller.
C20_FailureIsRejectWithReasons ==
    \A c \in LocateCallers :
        /\ ltask[c].pc # "raised"
        /\ InquiryFailed(c) =>
            /\ ltask[c].analysis.recommendation = "REJECT"
            /\ ~ltask[c].analysis.success
            /\ ltask[c].analysis.reasons # <<>>

-----------------------------------------------------------------------------
(* analyze_locate: the recommendation and the shares.                      *)

\* the analysis of a call got pricing from its inquiry
Priced(c) == ltask[c].answer = "info"

\* the element is in the list
Among(x, list) == \E i \in DOMAIN list : list[i] = x

\* the cost of the locate in mills and the worth of the position in cents,
\* from the rate, the shares and the price the analysis recorded
TotalCost(c) == ltask[c].analysis.locate_rate * ltask[c].analysis.locate_shares
PositionValue(c) == ltask[c].analysis.current_price * ltask[c].analysis.locate_shares

\* the caps: 2.50 dollars in all, 1.5 percent of the position
OverTotalCost(c) == TotalCost(c) > 2500
OverCostPct(c) == 100 * TotalCost(c) > 15 * PositionValue(c)

\* C21: analyze_locate recommends APPROVE exactly when the inquiry result
\* is easy-to-borrow or is priced within both caps (the total cost and the
\* cost as a percentage of the position); when a cap is exceeded it
\* recommends REJECT and the reasons name every exceeded cap.
C21_ApproveExactlyWithinCaps ==
    \A c \in LocateCallers :
        Priced(c) =>
            LET a == ltask[c].analysis
                approved == a.recommendation = "APPROVE" /\ a.success
                rejected == a.recommendation = "REJECT" /\ ~a.success
            IN  /\ approved \/ rejected
                /\ approved <=> (a.locate_rate = 0 \/ (~OverTotalCost(c) /\ ~OverCostPct(c)))
                /\ a.locate_rate > 0 /\ OverTotalCost(c) => rejected /\ Among("total_cost", a.reasons)
                /\ a.locate_rate > 0 /\ OverCostPct(c) => rejected /\ Among("cost_pct", a.reasons)

\* 400 shares at 10 dollars priced at 0.05 a share cost 20 dollars: over the
\* total cap alone, rejected
C21_Witness ==
    /\ Priced(1)
    /\ ltask[1].analysis.locate_rate = 50
    /\ ltask[1].analysis.locate_shares = 400
    /\ ltask[1].analysis.current_price = 1000
    /\ ltask[1].analysis.recommendation = "REJECT"
    /\ Among("total_cost", ltask[1].analysis.reasons)
    /\ ~Among("cost_pct", ltask[1].analysis.reasons)

\* the call's analysis got past the price and volume lookup
SharesSet(c) == "locate_shares" \in DOMAIN ltask[c].analysis

\* the share quantity a price inquiry carried on the wire
QuantityOf(i) == DigitsVal(Split(wire[i].text)[2])

-----------------------------------------------------------------------------
(* The risk calculator and calculate_pnl on their own.                     *)

RiskEntries == {150000, 500000}
RiskStops == {149000, 150000, 151000, 250000}
RiskAmounts == {500, 10000, 200000}
RiskSlippages == {0, 50, 100}
RiskMinShares == {0, 1, 10}
RiskMaxShares == {PyNone, PyInt(0), PyInt(5), PyInt(1000)}
RiskShareCounts == {0, 1, 200}
RiskSides == {"long", "short", "LONG", "flat"}
PnlQuantities == {-200, 0, 200}
PnlCosts == {0, 150000}
PnlPrices == {149000, 151000}

\* the stops suggest_stop_price returns for these inputs
SuggestedStops(entry, shares, slip) ==
    {suggest_stop_price(entry, risk, shares, side, slip) :
        risk \in RiskAmounts, side \in RiskSides} \ {Exc("ValueError")}

RiskInit == IdleParser /\ MarketInit

RiskNext ==
    \/ /\ rcall = NoCall
       /\ \E entry \in RiskEntries, stop \in RiskStops, risk \in RiskAmounts,
             slip \in RiskSlippages, min_shares \in RiskMinShares, max_shares \in RiskMaxShares :
             SharesForRisk(entry, stop, risk, slip, min_shares, max_shares)
    \/ /\ rcall = NoCall
       /\ \E entry \in RiskEntries, stop \in RiskStops, risk \in RiskAmounts,
             slip \in RiskSlippages, min_shares \in RiskMinShares, max_shares \in RiskMaxShares :
             PositionSize(entry, stop, risk, slip, min_shares, max_shares)
    \/ /\ rcall = NoCall
       /\ \E entry \in RiskEntries, shares \in RiskShareCounts, slip \in RiskSlippages :
             \E stop \in {Frac(x, 1) : x \in RiskStops} \cup SuggestedStops(entry, shares, slip) :
                 PositionRisk(entry, stop, shares, slip)
    \/ /\ rcall = NoCall
       /\ \E entry \in RiskEntries, risk \in RiskAmounts, shares \in RiskShareCounts,
             side \in RiskSides, slip \in RiskSlippages :
             SuggestStop(entry, risk, shares, side, slip)
    \/ /\ rcall = NoCall
       /\ \E quantity \in PnlQuantities, avg_cost \in PnlCosts, current_price \in PnlPrices :
             CalculatePnl(quantity, avg_cost, current_price)

SpecRisk == RiskInit /\ [][RiskNext]_vars

\* the call at hand sized a position
Sized == rcall.fn \in {"calculate_shares_for_risk", "calculate_position_size"}

SizedShares ==
    IF rcall.fn = "calculate_position_size" THEN rcall.result.shares ELSE rcall.result

\* C27: the dollar risk of the position sized by calculate_shares_for_risk
\* or calculate_position_size, shares x (|entry - stop| + slippage), never
\* exceeds the requested risk_dollars.
C27_RiskWithinRequested ==
    Sized =>
        SizedShares * (Abs(rcall.args.entry - rcall.args.stop) + rcall.args.slip)
            <= rcall.args.risk

\* C28: calculate_shares_for_risk returns the floor of risk_dollars over
\* the per-share risk, raised to min_shares when below it and lowered to
\* max_shares when a maximum is given and exceeded, so the result always
\* lies between min_shares and max_shares; when the per-share risk is not
\* positive it returns min_shares.
C28_SharesBetweenMinAndMax ==
    rcall.fn = "calculate_shares_for_risk" =>
        LET a == rcall.args
            risk_per_share == Abs(a.entry - a.stop) + a.slip
            floor == a.risk \div risk_per_share
            raised == IF floor < a.min_shares THEN a.min_shares ELSE floor
            lowered == IF ~IsNone(a.max_shares) /\ raised > a.max_shares.int
                       THEN a.max_shares.int ELSE raised
        IN  IF risk_per_share <= 0 THEN rcall.result = a.min_shares
            ELSE /\ rcall.result = lowered
                 /\ a.min_shares <= rcall.result
                 /\ ~IsNone(a.max_shares) => rcall.result <= a.max_shares.int

\* C29: for every entry price, risk amount, positive share count,
\* non-negative slippage and side, the position risk at the stop that
\* suggest_stop_price returns for a risk amount equals that risk amount.
C29_SuggestedStopAchievesRisk ==
    rcall.fn = "calculate_position_risk" =>
        \A risk \in RiskAmounts, side \in RiskSides :
            suggest_stop_price(rcall.args.entry, risk, rcall.args.shares, side,
                               rcall.args.slip) = rcall.args.stop
                => FracEq(rcall.result, Frac(risk, 1))

\* C30: calculate_pnl returns unrealized_pnl = (current_price - avg_cost) x
\* quantity for every signed quantity (quantity 200, cost 150, price 151
\* gives 200 and about 0.667 percent), and zero P&L for a flat position.
C30_UnrealizedPnl ==
    rcall.fn = "calculate_pnl" =>
        LET a == rcall.args
        IN  /\ rcall.result.unrealized_pnl = (a.current_price - a.avg_cost) * a.quantity
            /\ a.quantity = 0 =>
                /\ rcall.result.realized_pnl = 0
                /\ FracEq(rcall.result.pnl_percent, Frac(0, 1))
            /\ (a.quantity = 200 /\ a.avg_cost = 150000 /\ a.current_price = 151000) =>
                /\ rcall.result.unrealized_pnl = 200000
                /\ FracEq(rcall.result.pnl_percent, Frac(2, 3))

\* C30 witness: a short position marked above its cost, at a loss
C30_Witness ==
    /\ rcall.fn = "calculate_pnl"
    /\ rcall.args.quantity < 0
    /\ rcall.args.current_price > rcall.args.avg_cost
    /\ rcall.result.unrealized_pnl < 0

-----------------------------------------------------------------------------
(* The strategies, one call at a time, with every answer the clock, the    *)
(* quote lookup, the account and the order manager can give.               *)

StrategySymbols == {"AAPL", "BRK.B"}
StrategyEntryTypes == {"mid", "LIMIT", "ask", "vwap"}
StrategySlippages == {0, 50}
StrategyTargets == {PyNone, PyInt(152000)}
StrategyTimes == {200, 240, 570, 959, 960, 1200}
StrategyQuotes ==
    {PyNone} \cup {create_quote_from_message(parse_message(l)) :
                      l \in {"$Quote AAPL 150.00 150.02 150.01 120000 3 5", "$Quote AAPL"}}
InsufficientBP == 1000000
SufficientBP == 50000000
BuyingPowers == {PyNone, PyInt(0), PyInt(InsufficientBP), PyInt(SufficientBP)}
AllSent == <<"ok", "ok", "ok">>
OrderAnswers == {AllSent, <<"none", "ok", "ok">>, <<"ok", "none", "ok">>, <<"ok", "ok", "none">>}
ExitTypes == {"market", "MARKET", "limit", "mid", "vwap"}
ExitLimits == {PyNone, PyInt(151000)}
Percentages == {0, 50, 100}
HeldQuantities == {-200, 0, 1, 200}

Target(price, percentage) == [price |-> price, percentage |-> percentage]
ScaleTargets ==
    {<<Target(151000, 333), Target(152000, 333), Target(153000, 334)>>,
     <<Target(151000, 500), Target(152000, 500)>>,
     <<Target(151000, 250), Target(152000, 750)>>,
     <<Target(151000, 1000)>>}
ScaleQuantities == {-200, 0, 1, 3, 200, 300}
ScaleAnswers == {AllSent, <<"none", "ok", "ok">>, <<"none", "none", "none">>}

StrategyArgs(stop_price) ==
    [symbol : StrategySymbols, entry_price : {150000}, stop_price : {stop_price},
     risk_amount : {200000}, entry_type : StrategyEntryTypes, slippage : StrategySlippages,
     target_price : StrategyTargets, validate_buying_power : BOOLEAN,
     allow_extended_hours : BOOLEAN]

StrategyEnvs ==
    [time : StrategyTimes, quote : StrategyQuotes, bp : BuyingPowers, sends : OrderAnswers]

StrategyInit == IdleParser /\ MarketInit

StrategyNext ==
    \/ /\ rcall = NoCall
       /\ \E a \in StrategyArgs(149000), env \in StrategyEnvs : BuyWithRiskStop(a, env)
    \/ /\ rcall = NoCall
       /\ \E a \in StrategyArgs(151000), env \in StrategyEnvs : SellWithRiskStop(a, env)
    \/ /\ rcall = NoCall
       /\ \E symbol \in {"AAPL"}, exit_type \in ExitTypes, limit_price \in ExitLimits,
             percentage \in Percentages, quantity \in HeldQuantities, quote \in StrategyQuotes,
             answer \in {"ok", "none"} :
             ClosePosition(symbol, exit_type, limit_price, percentage, quantity, quote, answer)
    \/ /\ rcall = NoCall
       /\ \E symbol \in {"AAPL"}, targets \in ScaleTargets, cancel_stops \in BOOLEAN,
             quantity \in ScaleQuantities, answers \in ScaleAnswers :
             ScaleOut(symbol, targets, cancel_stops, quantity, answers)

SpecStrategy == StrategyInit /\ [][StrategyNext]_vars

\* the call at hand is an entry strategy
EntryCall == rcall.fn \in {"buy_with_risk_stop", "sell_with_risk_stop"}

SessionOf == get_current_session(rcall.env.time)

\* the send_order requests among those made
SendOrders == {i \in 1..Len(orders) : orders[i].call = "send_order"}

\* the quote lookup gave a price for the entry type asked for
Quoted ==
    /\ validate_symbol(rcall.args.symbol)
    /\ ~IsNone(rcall.env.quote)
    /\ IsInt(ActualEntry(rcall.args.entry_type, rcall.env.quote, rcall.args.entry_price))

\* the value of the position the call sizes: entry price x shares
SizedValue ==
    LET actual_entry == ActualEntry(rcall.args.entry_type, rcall.env.quote,
                                    rcall.args.entry_price).int
        entry_with_slippage == IF rcall.fn = "buy_with_risk_stop"
                               THEN actual_entry + rcall.args.slippage
                               ELSE actual_entry - rcall.args.slippage
    IN  actual_entry * calculate_position_size(entry_with_slippage, rcall.args.stop_price,
                                               rcall.args.risk_amount, rcall.args.slippage,
                                               1, PyNone).shares

\* C23: during regular trading hours a buy_with_risk_stop call whose quote
\* lookup, buying-power check and order submissions all succeed submits the
\* entry order first, then a stop order for the same share count, then the
\* optional target order, and returns success with the entry and stop order
\* ids.
C23_RthEntryStopTarget ==
    ( /\ rcall.fn = "buy_with_risk_stop"
      /\ SessionOf = "rth"
      /\ Quoted
      /\ rcall.env.bp = PyInt(SufficientBP)
      /\ rcall.env.sends = AllSent )
        => /\ Len(orders) = IF Truthy(rcall.args.target_price) THEN 3 ELSE 2
           /\ orders[1].side = OrderSide.BUY
           /\ ~IsNone(orders[2].stop_price)
           /\ orders[2].quantity = orders[1].quantity
           /\ Len(orders) = 3 => orders[3].price = rcall.args.target_price
           /\ rcall.result.success
           /\ IsStr(rcall.result.entry_order_id)
           /\ IsStr(rcall.result.stop_order_id)

\* C24: in premarket or after-hours, buy_with_risk_stop and
\* sell_with_risk_stop submit no order at all unless allow_extended_hours is
\* set; when it is set, the entry is always a LIMIT order and no stop order
\* is ever submitted.
C24_ExtendedHoursLimitOnly ==
    (EntryCall /\ SessionOf \in {"premarket", "afterhours"}) =>
        /\ ~rcall.args.allow_extended_hours => orders = <<>>
        /\ orders # <<>> =>
            /\ orders[1].side \in {OrderSide.BUY, OrderSide.SHORT}
            /\ orders[1].order_type = OrderType.LIMIT
            /\ ~IsNone(orders[1].price)
        /\ \A i \in 1..Len(orders) :
            /\ IsNone(orders[i].stop_price)
            /\ orders[i].order_type = OrderType.LIMIT

\* C24 witness: an after-hours entry that was allowed, priced at the mid and
\* sent with its target
C24_Witness ==
    /\ EntryCall
    /\ SessionOf = "afterhours"
    /\ rcall.args.allow_extended_hours
    /\ ToLower(rcall.args.entry_type) = "mid"
    /\ rcall.result.success
    /\ Len(orders) = 2

\* C25: an order that closes or protects a short position is a
\* buy-to-cover: the side submitted for a short position is different on
\* the wire from the side submitted to sell a long position, so every exit
\* order trades opposite to the direction of the position it closes.
C25_CoverIsNotSell ==
    /\ (rcall.fn = "close_position" /\ rcall.env.quantity < 0) =>
            \A i \in SendOrders : orders[i].side # OrderSide.SELL
    /\ rcall.fn = "sell_with_risk_stop" =>
            \A i \in SendOrders : i > 1 => orders[i].side # OrderSide.SELL

\* C26: with validate_buying_power enabled, buy_with_risk_stop and
\* sell_with_risk_stop submit no order whenever the position value (entry
\* price x shares) exceeds the account's reported buying power, for every
\* non-negative buying-power value.
C26_NoOrderBeyondBuyingPower ==
    ( /\ EntryCall
      /\ rcall.args.validate_buying_power
      /\ Quoted
      /\ IsInt(rcall.env.bp)
      /\ SizedValue > rcall.env.bp.int )
        => orders = <<>>

-----------------------------------------------------------------------------
\* C40: for every non-flat position, long or short, with non-zero average
\* cost, the pnl_percent returned by calculate_pnl has the same sign as
\* unrealized_pnl.
C40_PercentSignedAsPnl ==
    ( /\ rcall.fn = "calculate_pnl"
      /\ rcall.args.quantity # 0
      /\ rcall.args.avg_cost # 0 )
        => Sgn(rcall.result.pnl_percent.n) = Sgn(rcall.result.unrealized_pnl)

\* C34: buy_with_risk_stop and sell_with_risk_stop never leave an
\* unprotected entry behind a failure result: whenever the call returns
\* success = False, no entry order has been submitted.
C34_FailureLeavesNoEntry ==
    (EntryCall /\ ~rcall.result.success) =>
        \A i \in SendOrders : orders[i].answer # "ok"

\* C35: close_position fails without side effects: whenever it returns
\* success = False, no cancel-all request and no order submission has been
\* issued for the symbol.
C35_FailedCloseIssuesNothing ==
    (rcall.fn = "close_position" /\ ~rcall.result.success) => orders = <<>>

\* C37: when the market session is closed (outside 4:00 to 20:00 Eastern),
\* buy_with_risk_stop and sell_with_risk_stop submit no order.
C37_ClosedSessionNoOrder ==
    (EntryCall /\ SessionOf = "closed") => orders = <<>>

RECURSIVE SumTo(_, _)
SumTo(f, n) == IF n = 0 THEN 0 ELSE f[n] + SumTo(f, n - 1)

\* the percentages of the targets given, in tenths, summed
PercentSum == SumTo([k \in 1..Len(rcall.args.targets) |-> rcall.args.targets[k].percentage],
                    Len(rcall.args.targets))

\* the limit orders submitted by the call at hand, in order
Submitted == SelectSeq(orders, LAMBDA o : o.call = "send_order")

\* C31: for scale_out targets whose percentages sum to 100, the quantities
\* of the submitted limit orders sum to the full position size (the last
\* target sells the remainder), with one order per target in the order the
\* targets were given.
C31_ScaleOutSellsWholePosition ==
    ( /\ rcall.fn = "scale_out"
      /\ rcall.env.quantity # 0
      /\ PercentSum = 1000 )
        => /\ Len(Submitted) = Len(rcall.args.targets)
           /\ \A k \in 1..Len(Submitted) :
                /\ Submitted[k].order_type = OrderType.LIMIT
                /\ Submitted[k].price = PyInt(rcall.args.targets[k].price)
           /\ SumTo([k \in 1..Len(Submitted) |-> Submitted[k].quantity], Len(Submitted))
                = Abs(rcall.env.quantity)

-----------------------------------------------------------------------------
(* A wrapped function that may fail at every invocation.                   *)

MaxAttempts == 4
RetryDelays == {0, 1, 5}

RetryInit == IdleParser /\ MarketInit

RetryNext ==
    \/ \E max_attempts \in 0..MaxAttempts, delay \in RetryDelays :
          RetryCall(max_attempts, delay)
    \/ \E outcome \in {"returns", "raises", "cancelled"} : RetryAttempt(outcome)
    \/ \E cancelled \in BOOLEAN : RetryWake(cancelled)
    \/ RetryExhausted

\* every await of the wrapper ends: the wrapped function returns or raises,
\* and a sleep is over or cancelled
SpecRetry == RetryInit /\ [][RetryNext]_vars /\ WF_vars(RetryNext)

Retrying == rcall.fn = "retry_on_error"

RetryDone == Retrying /\ rcall.pc \in {"returned", "raised"}

\* invocations of the wrapped function so far
Invoked == Len(rcall.calls)

\* the invocations so far that raised an Exception
Failures == Cardinality({i \in 1..Invoked : rcall.calls[i] = "raised"})

\* what holds of the frame at every moment: the invocations are bounded,
\* all but the last one failed, there is one wait of delay x i after the
\* i-th failure unless it was the last attempt, a result returned is that
\* of the last invocation, and the exception raised after the last attempt
\* is the one that attempt raised
RetryBounded ==
    Retrying =>
        /\ Invoked <= rcall.max_attempts
        /\ \A i \in 1..(Invoked - 1) : rcall.calls[i] = "raised"
        /\ Len(rcall.slept) = IF rcall.max_attempts = 0 THEN 0
                              ELSE Min(Failures, rcall.max_attempts - 1)
        /\ \A i \in 1..Len(rcall.slept) : rcall.slept[i] = rcall.delay * i
        /\ rcall.pc = "returned" =>
                /\ rcall.calls[Invoked] = "returned"
                /\ rcall.result = PyStr("value")
        /\ (rcall.pc = "raised" /\ Failures = Invoked /\ Invoked >= 1
                /\ rcall.result # Cancelled) =>
                /\ Invoked = rcall.max_attempts
                /\ rcall.result = Failed(rcall.max_attempts)

\* C38: a function wrapped by retry_on_error(max_attempts, delay) is invoked
\* at most max_attempts times: the first successful result is returned with
\* no further invocation, a wait of delay x attempt number occurs only
\* between consecutive attempts, and after max_attempts consecutive failures
\* the wrapper terminates by raising the last exception.
C38_RetryBoundedAndTerminates ==
    /\ []RetryBounded
    /\ [][RetryDone => UNCHANGED rcall]_vars
    /\ <>RetryDone

\* C38 witness: three failures, with waits after the first two only, ended
\* in the third exception
C38_Witness ==
    /\ RetryDone
    /\ rcall.max_attempts = 3
    /\ rcall.calls = <<"raised", "raised", "raised">>
    /\ rcall.slept = <<5, 10>>
    /\ rcall.result = Failed(3)

-----------------------------------------------------------------------------
\* the call just made was get_time_sales
TapeRead == last.op = "read" /\ last.accessor = "get_time_sales"

\* C39: get_time_sales(symbol, limit) returns at most limit prints for
\* every limit >= 0, namely the most recently received ones in arrival
\* order, and never modifies the tape.
C39_AtMostLimitMostRecent ==
    /\ [](TapeRead =>
            LET tape == TapeOf(time_sales, held.symbol)
                n == Len(held.value)
            IN  /\ n = Min(last.limit, Len(tape))
                /\ held.value = SubSeq(tape, Len(tape) - n + 1, Len(tape)))
    /\ [][TapeRead' => time_sales' = time_sales]_vars

-----------------------------------------------------------------------------
\* an unsubscribe at the Level2 or time-and-sales level has just completed
JustUnsubscribed ==
    last.op = "unsubscribe" /\ last.ok /\ last.level \in {"Lv2", "T&S"}

\* C36: once unsubscribe(symbol, LEVEL2) or unsubscribe(symbol, TIME_SALES)
\* has completed, the symbol's Level2 book or tape stays empty until the
\* symbol is subscribed again at that level, even if Level2 or trade events
\* for the symbol are delivered after the unsubscribe.  Stated for the step
\* that follows the unsubscribe.
C36_EvictedStaysEmpty ==
    [][(JustUnsubscribed /\ last'.op # "subscribe") =>
            /\ last.level = "Lv2" =>
                    BookOf(level2_data', last.symbol) = [BID |-> <<>>, ASK |-> <<>>]
            /\ last.level = "T&S" => TapeOf(time_sales', last.symbol) = <<>>]_vars

-----------------------------------------------------------------------------
\* C33: in every reachable state each entry of the quote cache is stored
\* under its own symbol: for every key s the cached Quote's symbol field
\* equals s, including when get_quote queries for different symbols are
\* outstanding concurrently and QUOTE replies arrive in any order.
C33_QuoteCachedUnderOwnSymbol ==
    \A s \in DOMAIN quotes : quotes[s].symbol = s

-----------------------------------------------------------------------------
\* C32: for every record parse_message can return for an inbound line
\* (truncated and error-flagged records included) the market-data handlers
\* for quote, Level2, time-and-sales and chart events never raise: the
\* handler that ran for a delivered record returned normally.
C32_HandlersNeverRaise ==
    (last.op = "deliver" /\ last.path = "handler") => ~last.raised

====
